---- MODULE Spec2Model ----
(***************************************************************************)
(* Model of the analytics core of byd-stats: the charging logic            *)
(* (src/core/chargingLogic.ts) and the anomaly detector                    *)
(* (services/AnomalyService), the predictor (services/PredictiveService)   *)
(* and the CSV import of charges.  The state of the model is the last call *)
(* made (its operation, arguments and result) together with the fields of  *)
(* the shared predictor and the train calls made on it.                    *)
(*                                                                         *)
(* Units.  Trip timestamps are epoch seconds counted from a Sunday 00:00   *)
(* local time.  The scheduler works on minutes (its inputs are whole       *)
(* minutes, so seconds * 1000 / 60000 is exact).  Energy passed to the     *)
(* cost functions is in 0.01 kWh, money in cents, instants of the          *)
(* recommendation in hours of a 365-day calendar.                          *)
(***************************************************************************)
EXTENDS Integers, Sequences, FiniteSets, TLC

VARIABLES op, args, ret, again, svc, calls, hook, sync, store

vars == <<op, args, ret, again, svc, calls, hook, sync, store>>

\* The predictor instance and the calls made on it
predictor == <<svc, calls>>

hooks == <<hook, sync, store>>

None == [tag |-> "none"]

-----------------------------------------------------------------------------
(* Generic helpers                                                         *)

Min2(a, b) == IF a < b THEN a ELSE b

Max2(a, b) == IF a > b THEN a ELSE b

Abs(a) == IF a < 0 THEN -a ELSE a

RECURSIVE Gcd(_, _)
Gcd(a, b) == IF b = 0 THEN a ELSE Gcd(b, a % b)

\* A JavaScript number that need not be an integer: n / d in lowest terms.
Rat(n, d) ==
    IF n = 0 THEN [n |-> 0, d |-> 1]
    ELSE LET g == Gcd(Abs(n), d) IN [n |-> n \div g, d |-> d \div g]

\* a/b < c/d for a, c >= 0 and b, d > 0, without forming the cross products
RECURSIVE RatLess(_, _, _, _)
RatLess(a, b, c, d) ==
    LET qa == a \div b
        qc == c \div d
        ra == a % b
        rc == c % d
    IN  IF qa # qc THEN qa < qc
        ELSE IF rc = 0 THEN FALSE
        ELSE IF ra = 0 THEN TRUE
        ELSE RatLess(d, rc, b, ra)

\* A time of day "HH:MM" as its two numbers; NoTime is '' / undefined.
Time(h, m) == [h |-> h, m |-> m]

NoTime == [h |-> -1, m |-> -1]

HasTime(t) == t # NoTime

-----------------------------------------------------------------------------
(* calculateCostSavings                                                    *)

\* parseInt(date.substring(4, 6)) - 1 on a 'YYYY-MM-DD' date: the two
\* characters are '-' and the tens digit of the month.
CostMonthIndex(date) == (IF date.mo >= 10 THEN -1 ELSE 0) - 1

\* new Date(year, monthIndex) for monthIndex in {-1, -2}: months since year 0
CostMonthOrdinal(date) == date.y * 12 + CostMonthIndex(date)

RECURSIVE InsertByTimestamp(_, _)
InsertByTimestamp(sorted, c) ==
    IF sorted = <<>> THEN <<c>>
    ELSE IF Head(sorted).timestamp <= c.timestamp
         THEN <<Head(sorted)>> \o InsertByTimestamp(Tail(sorted), c)
         ELSE <<c>> \o sorted

RECURSIVE SortByTimestamp(_)
SortByTimestamp(cs) ==
    IF cs = <<>> THEN <<>>
    ELSE InsertByTimestamp(SortByTimestamp(SubSeq(cs, 1, Len(cs) - 1)), cs[Len(cs)])

RECURSIVE TotalSavings(_, _)
TotalSavings(cs, offPeakPrice) ==
    IF cs = <<>> THEN 0
    ELSE LET c == Head(cs)
             potentialCost == c.kwhCharged * offPeakPrice
         IN  (IF c.type = "electric" /\ c.totalCost > potentialCost
              THEN c.totalCost - potentialCost ELSE 0)
             + TotalSavings(Tail(cs), offPeakPrice)

MonthsAnalyzed(cs) ==
    IF cs = <<>> THEN 0
    ELSE LET sorted == SortByTimestamp(cs)
             s == CostMonthOrdinal(sorted[1].date)
             e == CostMonthOrdinal(sorted[Len(sorted)].date)
         IN  Max2(1, (e - s) + 1)

\* windowHours: whole hours only, the minutes are read and dropped
WindowHours(st) ==
    IF st.offPeakEnd.h > st.offPeakStart.h
    THEN st.offPeakEnd.h - st.offPeakStart.h
    ELSE (24 - st.offPeakStart.h) + st.offPeakEnd.h

\* chargerPowerKw in units of 0.01 kW: (rating || 8) * 230 / 1000
ChargerPower(st) == (IF st.homeChargerRating # 0 THEN st.homeChargerRating ELSE 8) * 23

CostDisabledAlsoWhenEnabled(st) ==
    \/ ~HasTime(st.offPeakStart)
    \/ ~HasTime(st.offPeakEnd)
    \/ st.offPeakPrice = 0

CostDisabled(st) ==
    \/ ~st.offPeakEnabled
    \/ ~HasTime(st.offPeakStart)
    \/ ~HasTime(st.offPeakEnd)
    \/ st.offPeakPrice = 0

Deficit(avg, maxEnergy) == IF avg > maxEnergy THEN avg - maxEnergy ELSE 0

calculateCostSavings(charges, st, avgDailyConsumption) ==
    IF CostDisabled(st)
    THEN [tag |-> "cost", potentialMonthlySavings |-> Rat(0, 1),
          feasibleInOffPeak |-> TRUE, deficitKwh |-> 0, offPeakWindowHours |-> 0]
    ELSE LET windowHours == WindowHours(st)
             maxEnergyInWindow == ChargerPower(st) * windowHours
             deficit == Deficit(avgDailyConsumption, maxEnergyInWindow)
             months == MonthsAnalyzed(charges)
             total == TotalSavings(charges, st.offPeakPrice)
         IN  [tag |-> "cost",
              potentialMonthlySavings |->
                  IF months > 0 THEN Rat(Max2(0, total), months) ELSE Rat(0, 1),
              feasibleInOffPeak |-> deficit <= 0,
              deficitKwh |-> deficit,
              offPeakWindowHours |-> windowHours]

-----------------------------------------------------------------------------
(* getChargingRecommendation                                               *)

\* Days before the first of each month (index 0..11) of a 365-day year
CumDays == <<0, 31, 59, 90, 120, 151, 181, 212, 243, 273, 304, 334>>

\* getMonth() of the day-of-year doy (0-based)
MonthOfDoy(doy) == CHOOSE mo \in 0..11 :
    /\ CumDays[mo + 1] <= doy
    /\ (mo = 11 \/ doy < CumDays[mo + 2])

\* new Date(now.setMonth(now.getMonth() - 1)): same day of month and time in
\* the previous month; a day the month does not have rolls into the next one.
OneMonthAgo(now) ==
    LET day == now \div 24
        hr == now % 24
        year == day \div 365
        doy == day % 365
        mo == MonthOfDoy(doy)
        dom == doy - CumDays[mo + 1]
        prevYear == IF mo = 0 THEN year - 1 ELSE year
        prevMo == IF mo = 0 THEN 11 ELSE mo - 1
    IN  (prevYear * 365 + CumDays[prevMo + 1] + dom) * 24 + hr

NoDate == -1

\* batterySize in 0.01 kWh, soh in percent: capacity * (soh / 100), in 0.0001 kWh
UsableCapacity(st) == st.batterySize * st.soh

Recommendation(type, reason) == [tag |-> "recommendation", type |-> type, reason |-> reason, targetKwh |-> 0]

CapacityOverrun(weeklyKwh, st) ==
    /\ st.batterySize # 0
    /\ weeklyKwh * 100 > UsableCapacity(st)

LastBalancing(lastCalibrationDate, lastSlowChargeDate) ==
    IF lastCalibrationDate # NoDate THEN lastCalibrationDate ELSE lastSlowChargeDate

CalibrationDue(lastCalibrationDate, lastSlowChargeDate, now) ==
    LET lastBalancing == LastBalancing(lastCalibrationDate, lastSlowChargeDate)
    IN  lastBalancing = NoDate \/ lastBalancing < OneMonthAgo(now)

\* potentialMonthlySavings > 1 (euro) && feasibleInOffPeak
CostOpportunity(costAnalysis) ==
    /\ costAnalysis # None
    /\ costAnalysis.potentialMonthlySavings.n > 100 * costAnalysis.potentialMonthlySavings.d
    /\ costAnalysis.feasibleInOffPeak

RecommendationCostBeforeCalibration(lastCalibrationDate, lastSlowChargeDate, costAnalysis, weeklyKwh, st, now) ==
    IF CapacityOverrun(weeklyKwh, st) THEN Recommendation("mixed", "recommend_mixed")
    ELSE IF CostOpportunity(costAnalysis) THEN Recommendation("slow", "recommend_offpeak")
    ELSE IF CalibrationDue(lastCalibrationDate, lastSlowChargeDate, now)
         THEN Recommendation("slow", "recommend_calibration")
    ELSE Recommendation("slow", "recommend_slow_sufficient")

getChargingRecommendation(lastCalibrationDate, lastSlowChargeDate, costAnalysis, weeklyKwh, st, now) ==
    IF CapacityOverrun(weeklyKwh, st) THEN Recommendation("mixed", "recommend_mixed")
    ELSE IF CalibrationDue(lastCalibrationDate, lastSlowChargeDate, now)
         THEN Recommendation("slow", "recommend_calibration")
    ELSE IF CostOpportunity(costAnalysis) THEN Recommendation("slow", "recommend_offpeak")
    ELSE Recommendation("slow", "recommend_slow_sufficient")

-----------------------------------------------------------------------------
(* AnomalyService                                                          *)

Anomaly(id, type, severity, timestamp) ==
    [id |-> id, type |-> type, severity |-> severity, timestamp |-> timestamp]

NoTimestamp == -1

\* data.summary.soh in percent
checkBatteryHealth(data) ==
    IF data.soh < 75 THEN <<Anomaly(<<"soh_critical">>, "battery", "critical", NoTimestamp)>>
    ELSE IF data.soh < 85 THEN <<Anomaly(<<"soh_warning">>, "battery", "warning", NoTimestamp)>>
    ELSE <<>>

RECURSIVE InsertByStart(_, _)
InsertByStart(sorted, t) ==
    IF sorted = <<>> THEN <<t>>
    ELSE IF Head(sorted).start_timestamp <= t.start_timestamp
         THEN <<Head(sorted)>> \o InsertByStart(Tail(sorted), t)
         ELSE <<t>> \o sorted

\* [...trips].sort((a, b) => a.start_timestamp - b.start_timestamp), stable
RECURSIVE SortByStart(_)
SortByStart(ts) ==
    IF ts = <<>> THEN <<>>
    ELSE InsertByStart(SortByStart(SubSeq(ts, 1, Len(ts) - 1)), ts[Len(ts)])

\* Milliseconds in 12 hours: gapHours = gapMs / (1000 * 60 * 60) > 12
TwelveHoursMs == 12 * 60 * 60 * 1000

\* The gap as the detector reads it: the raw difference of the two
\* timestamps, taken to be milliseconds.
DrainGapMs(cur, nxt) == nxt.start_timestamp - cur.end_timestamp

ParkedLong(cur, nxt) == DrainGapMs(cur, nxt) > TwelveHoursMs

\* dropPer24h = (dropPct / gapHours) * 24 > limit, limit in percent per day:
\* dropPct * 24 * 3600000 > limit * gapMs  <=>  dropPct > gapMs \div (86400000 / limit)
DropPer24hAbove(cur, nxt, limit) ==
    (cur.end_soc - nxt.start_soc) > DrainGapMs(cur, nxt) \div (86400000 \div limit)

DrainQualifies(cur, nxt) ==
    /\ ParkedLong(cur, nxt)
    /\ nxt.start_soc < cur.end_soc
    /\ DropPer24hAbove(cur, nxt, 2)

DrainAnomaly(cur, nxt) ==
    Anomaly(<<"drain", cur.date>>, "drain",
            IF DropPer24hAbove(cur, nxt, 4) THEN "warning" ELSE "info",
            nxt.start_timestamp)

\* The loop from index i: the first qualifying gap is reported, then break
RECURSIVE DrainScan(_, _)
DrainScan(sorted, i) ==
    IF i > Len(sorted) - 1 THEN <<>>
    ELSE IF DrainQualifies(sorted[i], sorted[i + 1])
         THEN <<DrainAnomaly(sorted[i], sorted[i + 1])>>
         ELSE DrainScan(sorted, i + 1)

analyzePhantomDrain(trips) == DrainScan(SortByStart(trips), 1)

\* trips.slice(0, 5)
FirstFive(ts) == SubSeq(ts, 1, Min2(5, Len(ts)))

\* (electricity / trip) * 100 > avgConsumption * 1.25; electricity in 0.01 kWh,
\* avgEff in 0.01 kWh/100km, a zero distance divides to Infinity (or NaN for 0/0)
HighConsumption(t, avgEff) ==
    IF t.trip = 0 THEN t.electricity > 0
    ELSE t.electricity * 400 > avgEff * 5 * t.trip

RECURSIVE CountHigh(_, _)
CountHigh(ts, avgEff) ==
    IF ts = <<>> THEN 0
    ELSE (IF HighConsumption(Head(ts), avgEff) THEN 1 ELSE 0) + CountHigh(Tail(ts), avgEff)

analyzeTireHealth(trips, summary) ==
    IF summary.avgEff = 0 THEN <<>>
    ELSE IF CountHigh(FirstFive(trips), summary.avgEff) >= 3
         THEN <<Anomaly(<<"tire_pressure">>, "efficiency", "info", NoTimestamp)>>
         ELSE <<>>

\* settings.batterySize in 0.01 kWh: parseFloat(...) || 60
BatteryCapacity(st) == IF st.batterySize # 0 THEN st.batterySize ELSE 6000

RECURSIVE InsertByDateDesc(_, _)
InsertByDateDesc(sorted, c) ==
    IF sorted = <<>> THEN <<c>>
    ELSE IF Head(sorted).date >= c.date
         THEN <<Head(sorted)>> \o InsertByDateDesc(Tail(sorted), c)
         ELSE <<c>> \o sorted

\* [...charges].sort((a, b) => Date(b.date) - Date(a.date)), stable
RECURSIVE SortByDateDesc(_)
SortByDateDesc(cs) ==
    IF cs = <<>> THEN <<>>
    ELSE InsertByDateDesc(SortByDateDesc(SubSeq(cs, 1, Len(cs) - 1)), cs[Len(cs)])

\* new Date(y, m, d, h, min).getTime() / 1000: the charge's instant in seconds;
\* the code holds it in milliseconds, 1000 times this number.
ChargeTimeSec(c) == c.date * 86400 + c.time.h * 3600 + c.time.m * 60

\* t.end_timestamp < chargeTime, the timestamp compared as if milliseconds
EndsBeforeCharge(t, c) == t.end_timestamp \div 1000 < ChargeTimeSec(c)

\* nextT.start_timestamp > chargeTime
StartsAfterCharge(t, c) == (t.start_timestamp - 1) \div 1000 >= ChargeTimeSec(c)

\* The parking gap (raw timestamp difference, read as ms) around the charge;
\* 0 when none is found.
RECURSIVE ParkingGapMs(_, _, _)
ParkingGapMs(sorted, i, c) ==
    IF i > Len(sorted) THEN 0
    ELSE IF /\ EndsBeforeCharge(sorted[i], c)
            /\ (i = Len(sorted) \/ StartsAfterCharge(sorted[i + 1], c))
         THEN IF i < Len(sorted)
              THEN sorted[i + 1].start_timestamp - sorted[i].end_timestamp
              ELSE 0
         ELSE ParkingGapMs(sorted, i + 1, c)

\* durationHours in ms, with the 07:00-09:00 fallback of 8 hours
ChargeDurationMs(c, trips) ==
    LET gap == ParkingGapMs(SortByStart(trips), 1, c)
    IN  IF gap = 0 /\ c.time.h >= 7 /\ c.time.h <= 9 THEN 8 * 3600000 ELSE gap

\* inferredPower = kwhCharged / durationHours in (0, 4.0) kW, kwh in 0.01 kWh
IsSlowPower(c, trips) ==
    LET dur == ChargeDurationMs(c, trips)
    IN  dur > 0 /\ c.kwhCharged > 0 /\ c.kwhCharged < dur \div 9000 + (IF dur % 9000 = 0 THEN 0 ELSE 1)

IsValley(c) == c.time.h >= 0 /\ c.time.h < 8

\* threshold in percent
EfficiencyThreshold(c, trips) == IF IsSlowPower(c, trips) \/ IsValley(c) THEN 70 ELSE 80

\* efficiency = ((final - initial) / 100 * capacity) / kwhCharged, against pct %
EfficiencyBelow(c, st, pct) ==
    (c.finalPercentage - c.initialPercentage) * BatteryCapacity(st) < pct * c.kwhCharged

EfficiencyAbove(c, st, pct) ==
    (c.finalPercentage - c.initialPercentage) * BatteryCapacity(st) > pct * c.kwhCharged

ChargeAnomaly(c, st, trips) ==
    LET threshold == EfficiencyThreshold(c, trips)
    IN  IF /\ c.kwhCharged > 0
           /\ EfficiencyBelow(c, st, threshold)
           /\ EfficiencyAbove(c, st, 45)
           /\ EfficiencyBelow(c, st, 110)
        THEN <<Anomaly(<<"eff", c.id>>, "charging",
                       IF EfficiencyBelow(c, st, threshold - 10) THEN "warning" ELSE "info",
                       ChargeTimeSec(c))>>
        ELSE <<>>

RECURSIVE ChargeAnomalies(_, _, _)
ChargeAnomalies(cs, st, trips) ==
    IF cs = <<>> THEN <<>>
    ELSE ChargeAnomaly(Head(cs), st, trips) \o ChargeAnomalies(Tail(cs), st, trips)

analyzeCharges(charges, st, trips) ==
    ChargeAnomalies(FirstFive(SortByDateDesc(charges)), st, trips)

checkSystemHealth(data, st, charges, trips) ==
    checkBatteryHealth(data)
    \o analyzePhantomDrain(trips)
    \o analyzeCharges(charges, st, trips)
    \o analyzeTireHealth(trips, data)

-----------------------------------------------------------------------------
(* findSmartChargingWindows                                                *)

DayMin == 24 * 60

\* 1 January 1970 was a Thursday: getDay() of an instant in minutes (UTC)
DayIndex(minute) == ((minute \div DayMin) + 4) % 7

DayStart(minute) == (minute \div DayMin) * DayMin

\* formatTime: "HH:MM" of an instant
FormatTime(minute) == Time((minute % DayMin) \div 60, minute % 60)

\* start_ms and end_ms in minutes: (timestamp * 1000) / 60000
StartMin(t) == t.start_timestamp \div 60

EndMin(t) == t.end_timestamp \div 60

RECURSIVE FilterTimestamps(_)
FilterTimestamps(ts) ==
    IF ts = <<>> THEN <<>>
    ELSE (IF Head(ts).start_timestamp # 0 /\ Head(ts).end_timestamp # 0
          THEN <<Head(ts)>> ELSE <<>>) \o FilterTimestamps(Tail(ts))

ValidTrips(trips) == SortByStart(FilterTimestamps(trips))

RECURSIVE RecentTrips(_, _)
RecentTrips(ts, thirtyDaysAgo) ==
    IF ts = <<>> THEN <<>>
    ELSE (IF StartMin(Head(ts)) > thirtyDaysAgo THEN <<Head(ts)>> ELSE <<>>)
         \o RecentTrips(Tail(ts), thirtyDaysAgo)

DataToUse(validTrips, now) ==
    LET recentTrips == RecentTrips(validTrips, now - 30 * DayMin)
    IN  IF Len(recentTrips) > 5 THEN recentTrips ELSE validTrips

RECURSIVE TotalKwh(_)
TotalKwh(ts) == IF ts = <<>> THEN 0 ELSE Head(ts).electricity + TotalKwh(Tail(ts))

RECURSIVE MinTime(_, _)
MinTime(ts, acc) ==
    IF ts = <<>> THEN acc ELSE MinTime(Tail(ts), Min2(acc, StartMin(Head(ts))))

RECURSIVE MaxTime(_, _)
MaxTime(ts, acc) ==
    IF ts = <<>> THEN acc ELSE MaxTime(Tail(ts), Max2(acc, StartMin(Head(ts))))

\* spanMs in minutes: Math.max(ONE_DAY, maxTime - minTime), minTime from now
SpanMin(data, now) == Max2(DayMin, MaxTime(data, 0) - MinTime(data, now))

\* weeklyKwh = totalKwh / spanDays * 7, electricity in kWh
WeeklyKwh(data, now) == Rat(TotalKwh(data) * 7 * DayMin, SpanMin(data, now))

Amps(st) == IF st.homeChargerRating # 0 THEN st.homeChargerRating ELSE 16

\* requiredHours = weeklyKwh / (amps * 230 / 1000) * 1.05
RequiredHours(data, st, now) ==
    Rat(TotalKwh(data) * 7 * DayMin * 105, SpanMin(data, now) * Amps(st) * 23)

\* Parking gaps longer than 2 h between consecutive trips, in minutes
RECURSIVE Gaps(_, _)
Gaps(vt, i) ==
    IF i > Len(vt) - 1 THEN <<>>
    ELSE (IF StartMin(vt[i + 1]) - EndMin(vt[i]) > 120
          THEN <<[start |-> EndMin(vt[i]), end |-> StartMin(vt[i + 1])]>>
          ELSE <<>>) \o Gaps(vt, i + 1)

\* gaps.slice(-14)
LastFourteen(gs) == SubSeq(gs, Max2(1, Len(gs) - 13), Len(gs))

IsWeekend(dayIdx) == dayIdx = 0 \/ dayIdx = 6

getOffPeakSchedule(dayIdx, st) ==
    [start |-> IF IsWeekend(dayIdx) /\ HasTime(st.offPeakStartWeekend)
               THEN st.offPeakStartWeekend
               ELSE IF HasTime(st.offPeakStart) THEN st.offPeakStart ELSE Time(0, 0),
     end |-> IF IsWeekend(dayIdx) /\ HasTime(st.offPeakEndWeekend)
             THEN st.offPeakEndWeekend
             ELSE IF HasTime(st.offPeakEnd) THEN st.offPeakEnd ELSE Time(8, 0)]

\* wStart and wEnd of the off-peak window of the day that begins at dayStart
WindowStart(dayStart, sch) == dayStart + sch.start.h * 60 + sch.start.m

WindowEnd(dayStart, sch) ==
    IF sch.start = Time(0, 0) /\ sch.end = Time(0, 0) THEN dayStart + DayMin
    ELSE LET wEnd == dayStart + sch.end.h * 60 + sch.end.m
         IN  IF wEnd <= WindowStart(dayStart, sch) THEN wEnd + DayMin ELSE wEnd

IntersectionStartUnclamped(g, wStart) == g.start

\* Strict intersection of the gap and the window
IntersectionStart(g, wStart) == Max2(g.start, wStart)

IntersectionEnd(g, wEnd) == Min2(g.end, wEnd)

\* The while loop over the days of one gap
RECURSIVE GapCandidates(_, _, _, _)
GapCandidates(g, current, loopCount, st) ==
    IF ~(current < g.end /\ loopCount < 14) THEN <<>>
    ELSE LET dayStart == DayStart(current)
             sch == getOffPeakSchedule(DayIndex(dayStart), st)
             wStart == WindowStart(dayStart, sch)
             wEnd == WindowEnd(dayStart, sch)
             iStart == IntersectionStart(g, wStart)
             iEnd == IntersectionEnd(g, wEnd)
         IN  (IF iStart < iEnd /\ iEnd - iStart > 30
              THEN <<[dayIndex |-> DayIndex(iStart),
                      start |-> FormatTime(iStart),
                      end |-> FormatTime(iEnd),
                      duration |-> iEnd - iStart]>>
              ELSE <<>>)
             \o GapCandidates(g, DayStart(wStart) + DayMin, loopCount + 1, st)

RECURSIVE Candidates(_, _)
Candidates(gs, st) ==
    IF gs = <<>> THEN <<>>
    ELSE GapCandidates(Head(gs), Head(gs).start, 0, st) \o Candidates(Tail(gs), st)

\* Minute of the day of a candidate's formatted start: sH * 60 + sM
CandidateStartMins(c) == c.start.h * 60 + c.start.m

\* A consolidated slot keeps its averages as sums over count:
\* startMins = sumStart / count, endMins = sumEnd / count.
NewSlot(c) ==
    [key |-> <<c.dayIndex, CandidateStartMins(c)>>,
     dayIndex |-> c.dayIndex,
     totalDur |-> c.duration,
     count |-> 1,
     sumStart |-> CandidateStartMins(c),
     sumEnd |-> CandidateStartMins(c) + c.duration]

MergeInto(slot, c) ==
    [slot EXCEPT !.totalDur = @ + c.duration,
                 !.count = @ + 1,
                 !.sumStart = @ + CandidateStartMins(c),
                 !.sumEnd = @ + CandidateStartMins(c) + c.duration]

\* k.startsWith(dayKey) && |existing.startMins - startMins| < 120
FuzzyMatch(slot, c) ==
    /\ slot.dayIndex = c.dayIndex
    /\ Abs(slot.sumStart - CandidateStartMins(c) * slot.count) < 120 * slot.count

\* foundKey: the last matching key in insertion order, 0 if none
FoundIndex(slots, c) ==
    LET matches == {i \in 1..Len(slots) : FuzzyMatch(slots[i], c)}
    IN  IF matches = {} THEN 0 ELSE CHOOSE i \in matches : \A j \in matches : j <= i

\* consolidated[newKey] = {...}: an existing key keeps its place
PutSlot(slots, slot) ==
    LET same == {i \in 1..Len(slots) : slots[i].key = slot.key}
    IN  IF same = {} THEN Append(slots, slot)
        ELSE [i \in 1..Len(slots) |-> IF i \in same THEN slot ELSE slots[i]]

\* One pass of candidates.forEach: merge into the found slot or open a new one
ConsolidateOne(slots, c) ==
    LET found == FoundIndex(slots, c)
    IN  IF found # 0
        THEN [slots EXCEPT ![found] = MergeInto(slots[found], c)]
        ELSE PutSlot(slots, NewSlot(c))

RECURSIVE Consolidate(_, _)
Consolidate(cands, slots) ==
    IF cands = <<>> THEN slots
    ELSE CHOOSE r \in {Consolidate(Tail(cands), s) : s \in {ConsolidateOne(slots, Head(cands))}} : TRUE

NoDay == -1

\* One available slot: the strings shown and avgDuration = totalDur / count
AvailableSlot(slot) ==
    LET startFloor == slot.sumStart \div slot.count
        endFloor == (slot.sumStart + slot.totalDur) \div slot.count
        crossesDay == slot.sumStart + slot.totalDur >= DayMin * slot.count
        overOneDay == slot.totalDur > DayMin * slot.count
    IN  [dayIndex |-> slot.dayIndex,
         start |-> Time(startFloor \div 60, startFloor % 60),
         end |-> Time((endFloor % DayMin) \div 60, endFloor % 60),
         endDay |-> IF crossesDay /\ overOneDay
                    THEN (slot.dayIndex + endFloor \div DayMin) % 7 ELSE NoDay,
         totalDur |-> slot.totalDur,
         count |-> slot.count]

RECURSIVE AvailableSlots(_)
AvailableSlots(slots) ==
    IF slots = <<>> THEN <<>>
    ELSE <<AvailableSlot(Head(slots))>> \o AvailableSlots(Tail(slots))

\* b.score - a.score <= 0: a stays before b (avgDuration of a >= that of b)
LongerOrEqual(a, b) == a.totalDur * b.count >= b.totalDur * a.count

RECURSIVE InsertByScore(_, _)
InsertByScore(sorted, x) ==
    IF sorted = <<>> THEN <<x>>
    ELSE IF LongerOrEqual(Head(sorted), x)
         THEN <<Head(sorted)>> \o InsertByScore(Tail(sorted), x)
         ELSE <<x>> \o sorted

RECURSIVE SortByScore(_)
SortByScore(xs) ==
    IF xs = <<>> THEN <<>>
    ELSE InsertByScore(SortByScore(SubSeq(xs, 1, Len(xs) - 1)), xs[Len(xs)])

\* accumulatedHours, kept in minutes as a fraction
AddDuration(acc, slot) == Rat(acc.n * slot.count + slot.totalDur * acc.d, acc.d * slot.count)

\* A loop that never finds the bucket full
HoursBelowAlways(accMin, required) == TRUE

\* accumulatedHours < requiredHours
HoursBelow(accMin, required) == RatLess(accMin.n, accMin.d * 60, required.n, required.d)

TakeSlot(bucket, slot) ==
    [taken |-> Append(bucket.taken, slot), acc |-> AddDuration(bucket.acc, slot)]

\* The bucket loop: [taken |-> slots taken so far, acc |-> minutes accumulated]
RECURSIVE FillBucket(_, _, _)
FillBucket(slots, bucket, required) ==
    IF slots = <<>> \/ ~HoursBelow(bucket.acc, required) THEN bucket
    ELSE CHOOSE r \in {FillBucket(Tail(slots), b, required) : b \in {TakeSlot(bucket, Head(slots))}} : TRUE

\* days.indexOf(day): Domingo is 0, Sabado is 6
DayOrder(w) == w.dayIndex

RECURSIVE InsertByDay(_, _)
InsertByDay(sorted, w) ==
    IF sorted = <<>> THEN <<w>>
    ELSE IF DayOrder(Head(sorted)) <= DayOrder(w)
         THEN <<Head(sorted)>> \o InsertByDay(Tail(sorted), w)
         ELSE <<w>> \o sorted

RECURSIVE SortByDay(_)
SortByDay(ws) ==
    IF ws = <<>> THEN <<>>
    ELSE InsertByDay(SortByDay(SubSeq(ws, 1, Len(ws) - 1)), ws[Len(ws)])

Window(slot) == [dayIndex |-> slot.dayIndex, start |-> slot.start, end |-> slot.end, endDay |-> slot.endDay]

RECURSIVE Windows(_)
Windows(slots) == IF slots = <<>> THEN <<>> ELSE <<Window(Head(slots))>> \o Windows(Tail(slots))

NoteAlwaysAbsent(accMin, required) == "undefined"

Note(accMin, required) ==
    IF HoursBelow(accMin, required) THEN "insufficient_time" ELSE "undefined"

Null == [tag |-> "null"]

findSmartChargingWindows(trips, st, now) ==
    IF Len(trips) < 3 THEN Null
    ELSE LET validTrips == ValidTrips(trips)
         IN  IF validTrips = <<>> THEN Null
             ELSE LET data == DataToUse(validTrips, now)
                      required == RequiredHours(data, st, now)
                      candidates == IF st.offPeakEnabled
                                    THEN Candidates(LastFourteen(Gaps(validTrips, 1)), st)
                                    ELSE <<>>
                      available == SortByScore(AvailableSlots(Consolidate(candidates, <<>>)))
                      bucket == FillBucket(available, [taken |-> <<>>, acc |-> Rat(0, 1)], required)
                  IN  [tag |-> "windows",
                       windows |-> SortByDay(Windows(bucket.taken)),
                       weeklyKwh |-> WeeklyKwh(data, now),
                       requiredHours |-> required,
                       hoursFound |-> Rat(bucket.acc.n, bucket.acc.d * 60),
                       note |-> Note(bucket.acc, required)]

-----------------------------------------------------------------------------
(* Inputs                                                                  *)

MaxTrips == 7

MaxHealthTrips == 3

Hour == 60 * 60

Day == 24 * 60 * 60

\* 2023-11-12 00:00:00 UTC, a Sunday, in epoch seconds
Sunday0 == 19673 * Day

DefaultSettings ==
    [offPeakEnabled |-> FALSE, offPeakStart |-> NoTime, offPeakEnd |-> NoTime,
     offPeakStartWeekend |-> NoTime, offPeakEndWeekend |-> NoTime,
     offPeakPrice |-> 0, homeChargerRating |-> 0, batterySize |-> 6048, soh |-> 100]

\* A driving history: n trips of the same length and energy whose parking
\* gaps alternate between g1 and g2, the first one starting at s0.
RECURSIVE TripHistory(_, _, _, _, _, _)
TripHistory(n, s0, g1, g2, dur, kwh) ==
    IF n = 0 THEN <<>>
    ELSE <<[start_timestamp |-> s0, end_timestamp |-> s0 + dur, electricity |-> kwh]>>
         \o TripHistory(n - 1, s0 + dur + g1, g2, g1, dur, kwh)

FirstStarts == {Sunday0 + Day + 7 * Hour, Sunday0 + 5 * Day + 18 * Hour}

ParkingGaps == {Hour, 9 * Hour, 15 * Hour, 6 * Day + 8 * Hour, 10 * Day}

TripEnergies == {1, 12}

Schedules ==
    { [start |-> NoTime, end |-> NoTime, startWeekend |-> NoTime, endWeekend |-> NoTime],
      [start |-> Time(22, 0), end |-> Time(6, 0), startWeekend |-> Time(0, 0), endWeekend |-> Time(0, 0)],
      [start |-> Time(0, 30), end |-> Time(8, 0), startWeekend |-> Time(10, 0), endWeekend |-> NoTime] }

ChargerRatings == {0, 32}

\* How long after the last trip the call is made
CallDelays == {Hour, 25 * Day}

SchedulerSettings(enabled, sch, amps) ==
    [DefaultSettings EXCEPT !.offPeakEnabled = enabled,
                            !.offPeakStart = sch.start, !.offPeakEnd = sch.end,
                            !.offPeakStartWeekend = sch.startWeekend,
                            !.offPeakEndWeekend = sch.endWeekend,
                            !.homeChargerRating = amps]

-----------------------------------------------------------------------------
(* PredictiveService: the efficiency model                                 *)

NullModel == [tag |-> "null"]

\* The fields of a new PredictiveService()
NewService ==
    [efficiencyModel |-> NullModel, normalizationData |-> NullModel, isTrained |-> FALSE,
     sohModel |-> NullModel, sohNormalizationData |-> NullModel]

\* A trip is used when distance, energy and duration are positive, the speed
\* distance / (duration / 3600) is within [15, 160] km/h and the efficiency
\* kwh * 100 / distance within [5, 40]; trip in km, electricity in kWh,
\* duration in seconds
UsableTrip(t) ==
    /\ t.trip > 0 /\ t.electricity > 0 /\ t.duration > 0
    /\ t.trip * 3600 <= 160 * t.duration
    /\ t.trip * 3600 >= 15 * t.duration
    /\ t.electricity * 100 <= 40 * t.trip
    /\ t.electricity * 100 >= 5 * t.trip

\* Three anchors, each pushed 500 times
AnchorSamples == 3 * 500

\* features.length: the usable trips and the anchors
FeatureCount(trips) == Len(SelectSeq(trips, UsableTrip)) + AnchorSamples

\* A train that keeps the previous model until the new one is ready
TrainResetKeepingModel(s) == s

\* train, lines 31-33
TrainReset(s) ==
    [s EXCEPT !.efficiencyModel = NullModel, !.normalizationData = NullModel,
              !.isTrained = FALSE]

TrainAborted == [loss |-> 0, samples |-> 0]

\* train up to its await: the state of the service and of the call
TrainBegin(s, id, trips, weights) ==
    IF Len(trips) < 5 \/ FeatureCount(trips) < 5
    THEN [svc |-> TrainReset(s),
          call |-> [kind |-> "train", trips |-> trips, pc |-> "returned",
                    result |-> TrainAborted]]
    ELSE [svc |-> [TrainReset(s) EXCEPT
                      !.normalizationData = [tag |-> "moments", by |-> id,
                                             samples |-> FeatureCount(trips)],
                      !.efficiencyModel = [tag |-> "model", by |-> id, out |-> weights]],
          call |-> [kind |-> "train", trips |-> trips, pc |-> "fit", result |-> None]]

\* fit trains the model object the call created; the field may hold another by now
Fitted(model, id, weights) ==
    IF model # NullModel /\ model.by = id THEN [model EXCEPT !.out = weights] ELSE model

\* The same continuation, putting the call's own model back into the field
TrainEndRestoringOwnModel(s, id, call, weights, loss) ==
    [svc |-> [s EXCEPT !.efficiencyModel = [tag |-> "model", by |-> id, out |-> weights],
                       !.isTrained = TRUE],
     call |-> [call EXCEPT !.pc = "returned",
                           !.result = [loss |-> loss, samples |-> FeatureCount(call.trips)]]]

\* train after its await: this.efficiencyModel.layers[0] is read from the field
TrainEnd(s, id, call, weights, loss) ==
    IF s.efficiencyModel = NullModel
    THEN [svc |-> s, call |-> [call EXCEPT !.pc = "thrown", !.result = <<"TypeError">>]]
    ELSE [svc |-> [s EXCEPT !.efficiencyModel = Fitted(s.efficiencyModel, id, weights),
                            !.isTrained = TRUE],
          call |-> [call EXCEPT !.pc = "returned",
                                !.result = [loss |-> loss,
                                            samples |-> FeatureCount(call.trips)]]]

\* Efficiencies are in 0.1 kWh/100km
FallbackEfficiency == 160

Clamp(x) == Max2(100, Min2(400, x))

\* predict for scenario point k (1 City, 2 Mixed, 3 Highway); the stored model
\* always has two inputs, so the shape test never resets it
predict(s, k) ==
    IF s.efficiencyModel = NullModel \/ ~s.isTrained \/ s.normalizationData = NullModel
    THEN FallbackEfficiency
    ELSE Clamp(s.efficiencyModel.out[k])

ScenarioNames == <<"City", "Mixed", "Highway">>

\* Math.floor in its place
RoundDown(n, d) == n \div d

\* Math.round(x) for x = n / d with d > 0: the floor of x + 1/2
Round(n, d) == (2 * n + d) \div (2 * d)

\* batteryCapacity in 0.01 kWh, soh in percent:
\* range = (capacity / 100 * soh / 100) / (eff / 10) * 100 = capacity * soh / (10 * eff)
getScenarios(s, batteryCapacity, soh) ==
    [k \in 1..3 |->
        [name |-> ScenarioNames[k], efficiency |-> predict(s, k),
         range |-> Round(batteryCapacity * soh, 10 * predict(s, k))]]

-----------------------------------------------------------------------------
(* PredictiveService: the battery state-of-health model                    *)
(* Energies and capacities are in 0.01 kWh, dates are day numbers (0 for   *)
(* no date), the state of health is in 0.01 %.                              *)

\* { loss: 0, samples: 0, predictedSoH: 100 }
SoHAborted == [loss |-> 0, samples |-> 0, predictedSoH |-> 100 * 100]

\* The "deep" filter of trainSoH
DeepCharge(c) ==
    /\ c.kwhCharged > 0
    /\ c.initialPercentage >= 0
    /\ c.finalPercentage > c.initialPercentage
    /\ c.finalPercentage - c.initialPercentage >= 5
    /\ c.date # 0

RECURSIVE InsertByDate(_, _)
InsertByDate(sorted, c) ==
    IF sorted = <<>> THEN <<c>>
    ELSE IF Head(sorted).date <= c.date
         THEN <<Head(sorted)>> \o InsertByDate(Tail(sorted), c)
         ELSE <<c>> \o sorted

\* validCharges.sort((a, b) => a.date.localeCompare(b.date)), stable
RECURSIVE SortByDate(_)
SortByDate(cs) ==
    IF cs = <<>> THEN <<>>
    ELSE InsertByDate(SortByDate(SubSeq(cs, 1, Len(cs) - 1)), cs[Len(cs)])

\* kwh / ((final - initial) / 100)
ImpliedCapacity(c) == Rat(c.kwhCharged * 100, c.finalPercentage - c.initialPercentage)

\* No sanity filter at all
PlausibleAlways(c, nominalCapacity) == TRUE

\* Not (implied > nominal * 1.5 or implied < nominal * 0.5)
Plausible(c, nominalCapacity) ==
    LET gained == c.finalPercentage - c.initialPercentage
    IN  /\ 2 * c.kwhCharged * 100 <= 3 * nominalCapacity * gained
        /\ 2 * c.kwhCharged * 100 >= nominalCapacity * gained

\* The samples pushed by the forEach: day offset from the first deep charge,
\* implied capacity, weight (the gain, in points)
RECURSIVE SoHSamples(_, _, _)
SoHSamples(sorted, firstDate, nominalCapacity) ==
    IF sorted = <<>> THEN <<>>
    ELSE (IF Plausible(Head(sorted), nominalCapacity)
          THEN <<[days |-> Head(sorted).date - firstDate,
                  cap |-> ImpliedCapacity(Head(sorted)),
                  weight |-> Head(sorted).finalPercentage - Head(sorted).initialPercentage]>>
          ELSE <<>>)
         \o SoHSamples(Tail(sorted), firstDate, nominalCapacity)

RECURSIVE InsertByCap(_, _)
InsertByCap(sorted, x) ==
    IF sorted = <<>> THEN <<x>>
    ELSE IF ~RatLess(x.cap.n, x.cap.d, Head(sorted).cap.n, Head(sorted).cap.d)
         THEN <<Head(sorted)>> \o InsertByCap(Tail(sorted), x)
         ELSE <<x>> \o sorted

\* impliedCapacities.sort((a, b) => a.cap - b.cap), stable
RECURSIVE SortByCap(_)
SortByCap(xs) ==
    IF xs = <<>> THEN <<>>
    ELSE InsertByCap(SortByCap(SubSeq(xs, 1, Len(xs) - 1)), xs[Len(xs)])

RECURSIVE TotalWeight(_)
TotalWeight(xs) == IF xs = <<>> THEN 0 ELSE Head(xs).weight + TotalWeight(Tail(xs))

\* The first capacity at which the running weight reaches half the total
RECURSIVE MedianScan(_, _, _)
MedianScan(xs, weightSum, totalWeight) ==
    IF 2 * (weightSum + Head(xs).weight) >= totalWeight THEN Head(xs).cap
    ELSE MedianScan(Tail(xs), weightSum + Head(xs).weight, totalWeight)

WeightedMedian(samples) == MedianScan(SortByCap(samples), 0, TotalWeight(samples))

RECURSIVE SumDays(_)
SumDays(xs) == IF xs = <<>> THEN 0 ELSE Head(xs).days + SumDays(Tail(xs))

RECURSIVE SumSquaredDays(_)
SumSquaredDays(xs) ==
    IF xs = <<>> THEN 0 ELSE Head(xs).days * Head(xs).days + SumSquaredDays(Tail(xs))

\* tf.moments and the z-score: (days - mean) / (sqrt(variance) + 1e-6) is kept
\* as the pair (n * (days - mean), n * n * variance), n the number of samples
Normalized(days, samples) ==
    [centered |-> Len(samples) * days - SumDays(samples),
     variance |-> Len(samples) * SumSquaredDays(samples) - SumDays(samples) * SumDays(samples)]

\* What the fit and the final prediction are computed from
SoHInputs(samples) ==
    [features |-> [i \in 1..Len(samples) |-> Normalized(samples[i].days, samples)],
     labels |-> [i \in 1..Len(samples) |-> samples[i].cap],
     lastDay |-> Normalized(samples[Len(samples)].days, samples),
     median |-> WeightedMedian(samples),
     samples |-> Len(samples)]

\* The filter of getSoHDataPoints
PlottedCharge(c) ==
    /\ c.kwhCharged > 0
    /\ c.initialPercentage >= 0
    /\ c.finalPercentage > c.initialPercentage
    /\ c.finalPercentage - c.initialPercentage >= 10
    /\ c.date # 0

\* p.cap > nominalCapacity * 0.5 && p.cap < nominalCapacity * 1.5
PlottedCapacity(c, nominalCapacity) ==
    /\ 2 * c.kwhCharged * 100 > nominalCapacity * (c.finalPercentage - c.initialPercentage)
    /\ 2 * c.kwhCharged * 100 < 3 * nominalCapacity * (c.finalPercentage - c.initialPercentage)

\* A point and its place on the trend line: days is the argument given to
\* predictSoHInternal for the point
SoHPoint(c, firstDate) ==
    [x |-> c.date, cap |-> ImpliedCapacity(c), days |-> c.date - firstDate, charge |-> c]

SoHPoints(valid, nominalCapacity) ==
    [i \in 1..Len(SelectSeq(valid, LAMBDA c : PlottedCapacity(c, nominalCapacity))) |->
        SoHPoint(SelectSeq(valid, LAMBDA c : PlottedCapacity(c, nominalCapacity))[i],
                 valid[1].date)]

getSoHDataPoints(s, charges, nominalCapacity) ==
    IF s.sohModel = NullModel THEN <<>>
    ELSE IF SelectSeq(charges, PlottedCharge) = <<>> THEN <<>>
    ELSE SoHPoints(SortByDate(SelectSeq(charges, PlottedCharge)), nominalCapacity)

\* A fit from a single sample
EnoughSoHSamplesFromOne(n) == n >= 1

\* validCharges.length < 3 and features.length < 3 abort
EnoughSoHSamples(n) == n >= 3

SoHReset(s) == [s EXCEPT !.sohModel = NullModel, !.sohNormalizationData = NullModel]

\* trainSoH up to its await (or to its early return)
TrainSoHBegin(s, id, charges, nominalCapacity) ==
    LET valid == SortByDate(SelectSeq(charges, DeepCharge))
        samples == SoHSamples(valid, valid[1].date, nominalCapacity)
        aborted == [svc |-> SoHReset(s),
                    call |-> [kind |-> "trainSoH", charges |-> charges,
                              nominalCapacity |-> nominalCapacity,
                              pc |-> "returned", result |-> SoHAborted, inputs |-> None]]
    IN  IF nominalCapacity <= 0 THEN aborted
        ELSE IF ~EnoughSoHSamples(Len(valid)) THEN aborted
        ELSE IF ~EnoughSoHSamples(Len(samples)) THEN aborted
        ELSE [svc |-> [SoHReset(s) EXCEPT
                          !.sohNormalizationData = [tag |-> "moments", by |-> id],
                          !.sohModel = [tag |-> "model", by |-> id]],
              call |-> [kind |-> "trainSoH", charges |-> charges,
                        nominalCapacity |-> nominalCapacity,
                        pc |-> "fit", result |-> None, inputs |-> SoHInputs(samples)]]

\* predictSoHInternal: 60.48 without a model, else the model's answer
predictSoHInternal(s, output) ==
    IF s.sohModel = NullModel \/ s.sohNormalizationData = NullModel THEN 6048 ELSE output

\* The blend of the prediction with the median, as a percentage of the
\* nominal capacity, rounded to two decimals
FinalSoH(pred, median, nominalCapacity) ==
    LET far == Abs(pred * median.d - median.n) * 20 > median.n
        final == IF far THEN Rat(pred * median.d + 9 * median.n, 10 * median.d)
                 ELSE Rat(3 * pred * median.d + 7 * median.n, 10 * median.d)
        soh == Rat(final.n * 100, final.d * nominalCapacity)
    IN  Round(soh.n * 100, soh.d)

\* trainSoH after its await
TrainSoHEnd(s, id, call, output, loss) ==
    [svc |-> s,
     call |-> [call EXCEPT
                  !.pc = "returned",
                  !.result = [loss |-> loss, samples |-> call.inputs.samples,
                              predictedSoH |-> FinalSoH(predictSoHInternal(s, output),
                                                        call.inputs.median,
                                                        call.nominalCapacity)]]]

-----------------------------------------------------------------------------
(* Import of charges from a CSV file (utils/validation.ts and              *)
(* hooks/useChargeImporter.ts).  Text is a string, read one character at   *)
(* a time; a number is the exact decimal fraction n/d, or NaN.             *)
Ch(s, i) == SubSeq(s, i, i)

From(s, i) == SubSeq(s, i, Len(s))

Whitespace == {" ", "\t"}

Digits == "0123456789"

IsDigit(c) == \E i \in 1..Len(Digits) : Ch(Digits, i) = c

DigitValue(c) == (CHOOSE i \in 1..Len(Digits) : Ch(Digits, i) = c) - 1

UpperCase == "ABCDEFGHIJKLMNOPQRSTUVWXYZ"

LowerCase == "abcdefghijklmnopqrstuvwxyz"

RECURSIVE toLowerCase(_)
toLowerCase(s) ==
    IF s = "" THEN ""
    ELSE LET c == Ch(s, 1)
             at == {i \in 1..Len(UpperCase) : Ch(UpperCase, i) = c}
         IN  (IF at = {} THEN c ELSE Ch(LowerCase, CHOOSE i \in at : TRUE))
                 \o toLowerCase(From(s, 2))

RECURSIVE TrimStart(_)
TrimStart(s) ==
    IF s # "" /\ Ch(s, 1) \in Whitespace THEN TrimStart(From(s, 2)) ELSE s

RECURSIVE TrimEnd(_)
TrimEnd(s) ==
    IF s # "" /\ Ch(s, Len(s)) \in Whitespace
    THEN TrimEnd(SubSeq(s, 1, Len(s) - 1)) ELSE s

Trim(s) == TrimEnd(TrimStart(s))

\* Position of the first c in s at or after i, 0 when there is none
RECURSIVE IndexOf(_, _, _)
IndexOf(s, c, i) ==
    IF i > Len(s) THEN 0
    ELSE IF Ch(s, i) = c THEN i
    ELSE IndexOf(s, c, i + 1)

\* line.match(/("[^"]*"|[^,]+)/g): scanning from i, a quoted stretch when
\* the quote at i is closed, otherwise the longest stretch without a comma;
\* a comma matches nothing, so an empty field yields no value
RECURSIVE MatchFields(_, _)
MatchFields(line, i) ==
    IF i > Len(line) THEN <<>>
    ELSE IF Ch(line, i) = "\"" /\ IndexOf(line, "\"", i + 1) # 0
    THEN LET close == IndexOf(line, "\"", i + 1)
         IN  <<SubSeq(line, i, close)>> \o MatchFields(line, close + 1)
    ELSE IF Ch(line, i) = "," THEN MatchFields(line, i + 1)
    ELSE LET comma == IndexOf(line, ",", i)
             last == IF comma = 0 THEN Len(line) ELSE comma - 1
         IN  <<SubSeq(line, i, last)>> \o MatchFields(line, last + 1)

\* v.replace(/^"|"$/g, '')
StripQuotes(v) ==
    LET a == IF v # "" /\ Ch(v, 1) = "\"" THEN From(v, 2) ELSE v
    IN  IF a # "" /\ Ch(a, Len(a)) = "\"" THEN SubSeq(a, 1, Len(a) - 1) ELSE a

CsvValues(line) ==
    LET fields == MatchFields(line, 1)
    IN  [k \in 1..Len(fields) |-> Trim(StripQuotes(fields[k]))]

\* \d{4}-\d{2}-\d{2} at position i, \d{2}:\d{2} at position j
DateAt(s, i) ==
    /\ i + 9 <= Len(s)
    /\ \A k \in {0, 1, 2, 3, 5, 6, 8, 9} : IsDigit(Ch(s, i + k))
    /\ Ch(s, i + 4) = "-"
    /\ Ch(s, i + 7) = "-"

TimeAt(s, j) ==
    /\ j + 4 <= Len(s)
    /\ \A k \in {0, 1, 3, 4} : IsDigit(Ch(s, j + k))
    /\ Ch(s, j + 2) = ":"

RECURSIVE SkipWhitespace(_, _)
SkipWhitespace(s, j) ==
    IF j <= Len(s) /\ Ch(s, j) \in Whitespace THEN SkipWhitespace(s, j + 1) ELSE j

\* fechaHora.match(/(\d{4}-\d{2}-\d{2})\s*(\d{2}:\d{2})/): the leftmost match
DateMatch(s) ==
    LET starts == {i \in 1..Len(s) :
                      DateAt(s, i) /\ TimeAt(s, SkipWhitespace(s, i + 10))}
    IN  IF starts = {} THEN Null
        ELSE LET i == CHOOSE a \in starts : \A b \in starts : a <= b
                 j == SkipWhitespace(s, i + 10)
             IN  [date |-> SubSeq(s, i, i + 9), time |-> SubSeq(s, j, j + 4)]

NaN == [nan |-> TRUE, n |-> 0, d |-> 1]

Number(n, d) == [nan |-> FALSE, n |-> n, d |-> d]

\* The digits of s from i on: their value, how many they are, where they end
RECURSIVE ReadDigits(_, _, _, _)
ReadDigits(s, i, value, count) ==
    IF i <= Len(s) /\ IsDigit(Ch(s, i))
    THEN ReadDigits(s, i + 1, value * 10 + DigitValue(Ch(s, i)), count + 1)
    ELSE [value |-> value, count |-> count, next |-> i]

RECURSIVE Pow10(_)
Pow10(k) == IF k = 0 THEN 1 ELSE 10 * Pow10(k - 1)

\* The number made of a sign, the digits before the point and those after
\* it; no digit at all gives NaN
Decimal(sign, int, frac) ==
    IF int.count = 0 /\ frac.count = 0 THEN NaN
    ELSE Number(sign * (int.value * Pow10(frac.count) + frac.value),
                Pow10(frac.count))

ReadFraction(t, sign, int) ==
    IF int.next <= Len(t) /\ Ch(t, int.next) = "."
    THEN Decimal(sign, int, ReadDigits(t, int.next + 1, 0, 0))
    ELSE Decimal(sign, int, [value |-> 0, count |-> 0, next |-> int.next])

ReadSigned(t) ==
    IF t # "" /\ Ch(t, 1) = "-" THEN ReadFraction(t, -1, ReadDigits(t, 2, 0, 0))
    ELSE IF t # "" /\ Ch(t, 1) = "+" THEN ReadFraction(t, 1, ReadDigits(t, 2, 0, 0))
    ELSE ReadFraction(t, 1, ReadDigits(t, 1, 0, 0))

\* parseFloat on decimal notation: leading whitespace, a sign, digits, a
\* point, digits; whatever follows is ignored
parseFloat(s) == ReadSigned(TrimStart(s))

\* x || 0
OrZero(x) == IF x.nan \/ x.n = 0 THEN Number(0, 1) ELSE x

ParsedRow(values, dateMatch) ==
    IF dateMatch = Null THEN Null
    ELSE [date |-> dateMatch.date,
          time |-> dateMatch.time,
          odometer |-> OrZero(parseFloat(values[2])),
          kwhCharged |-> OrZero(parseFloat(values[3])),
          totalCost |-> OrZero(parseFloat(values[4])),
          initialPercentage |-> OrZero(parseFloat(values[5])),
          chargerType |-> IF Trim(values[6]) = "" THEN "Unknown"
                          ELSE Trim(values[6]),
          pricePerKwh |-> OrZero(parseFloat(values[7])),
          finalPercentage |-> OrZero(parseFloat(values[8]))]

parseChargeCsvLine(values) ==
    IF Len(values) < 8 THEN Null
    ELSE ParsedRow(values, DateMatch(values[1]))

\* z.number().min(k) and .max(k)
NumberMin(x, k) == ~x.nan /\ x.n >= k * x.d

NumberMax(x, k) == ~x.nan /\ x.n <= k * x.d

\* The schema with its bounds on the numbers left out
ChargeCsvRowSchemaOfText(row) ==
    /\ Len(row.date) = 10 /\ DateAt(row.date, 1)
    /\ Len(row.time) = 5 /\ TimeAt(row.time, 1)
    /\ Len(row.chargerType) >= 1

\* ChargeCsvRowSchema.safeParse(row).success
ChargeCsvRowSchema(row) ==
    /\ Len(row.date) = 10 /\ DateAt(row.date, 1)
    /\ Len(row.time) = 5 /\ TimeAt(row.time, 1)
    /\ NumberMin(row.odometer, 0)
    /\ NumberMin(row.kwhCharged, 0)
    /\ NumberMin(row.totalCost, 0)
    /\ Len(row.chargerType) >= 1
    /\ NumberMin(row.pricePerKwh, 0)
    /\ NumberMin(row.initialPercentage, 0) /\ NumberMax(row.initialPercentage, 100)
    /\ NumberMin(row.finalPercentage, 0) /\ NumberMax(row.finalPercentage, 100)

\* text.split('\n').filter(line => line.trim())
NonBlankLines(lines) == SelectSeq(lines, LAMBDA l : Trim(l) # "")

FindChargerType(types, name) ==
    LET at == {k \in 1..Len(types) : toLowerCase(types[k].name) = toLowerCase(name)}
    IN  IF at = {} THEN Null ELSE types[CHOOSE a \in at : \A b \in at : a <= b]

\* The id of the charger type of a row: that of the type in the settings,
\* a new one, that of the type queued by an earlier row, or none ("")
ChargerTypeId(acc, chargerName, newId, settings) ==
    IF FindChargerType(settings.chargerTypes, chargerName) # Null
    THEN FindChargerType(settings.chargerTypes, chargerName).id
    ELSE IF toLowerCase(chargerName) \notin acc.existingChargerNames THEN newId
    ELSE IF FindChargerType(acc.newChargerTypes, chargerName) # Null
    THEN FindChargerType(acc.newChargerTypes, chargerName).id
    ELSE ""

CreatesChargerType(acc, chargerName, settings) ==
    /\ FindChargerType(settings.chargerTypes, chargerName) = Null
    /\ toLowerCase(chargerName) \notin acc.existingChargerNames

\* The rest of a turn of the loop for a row that passed the validation
ImportRow(acc, data, chargerTypeId, created, newId) ==
    [charges |->
         IF chargerTypeId # ""
         THEN Append(acc.charges,
                     [date |-> data.date,
                      time |-> data.time,
                      odometer |-> data.odometer,
                      kwhCharged |-> data.kwhCharged,
                      totalCost |-> data.totalCost,
                      chargerTypeId |-> chargerTypeId,
                      pricePerKwh |-> data.pricePerKwh,
                      initialPercentage |-> data.initialPercentage,
                      finalPercentage |-> data.finalPercentage])
         ELSE acc.charges,
     newChargerTypes |->
         IF created
         THEN Append(acc.newChargerTypes,
                     [id |-> newId, name |-> data.chargerType,
                      speedKw |-> 11, efficiency |-> 1])
         ELSE acc.newChargerTypes,
     existingChargerNames |->
         IF created
         THEN acc.existingChargerNames \cup {toLowerCase(data.chargerType)}
         ELSE acc.existingChargerNames]

ValidateRow(acc, rawData, i, settings) ==
    IF rawData = Null THEN acc
    ELSE IF ~ChargeCsvRowSchema(rawData) THEN acc
    ELSE ImportRow(acc, rawData,
                   ChargerTypeId(acc, rawData.chargerType, <<"csv", i>>, settings),
                   CreatesChargerType(acc, rawData.chargerType, settings),
                   <<"csv", i>>)

ParseRow(acc, values, i, settings) ==
    IF Len(values) = 0 THEN acc
    ELSE ValidateRow(acc, parseChargeCsvLine(values), i, settings)

\* One turn of the loop over the lines; i is the index of the line counted
\* from 0 as in the code, acc the charges and charger types gathered so far
ImportLine(acc, line, i, settings) == ParseRow(acc, CsvValues(line), i, settings)

RECURSIVE ImportLines(_, _, _, _)
ImportLines(acc, lines, i, settings) ==
    IF i >= Len(lines) THEN acc
    ELSE CHOOSE r \in {ImportLines(a, lines, i + 1, settings) :
                          a \in {ImportLine(acc, lines[i + 1], i, settings)}} : TRUE

\* The estimation of the initial percentage and the rounding of the final
\* one; settings.batterySize is in 0.01 kWh
ProcessCharge(c, batterySize) ==
    LET final == Round(c.finalPercentage.n, c.finalPercentage.d)
        kwh == c.kwhCharged
        estimate == c.initialPercentage.n = 0 /\ final # 0 /\ kwh.n # 0
        start == Round(final * kwh.d * batterySize - kwh.n * 10000,
                       kwh.d * batterySize)
    IN  [c EXCEPT !.initialPercentage =
                      IF estimate THEN Number(Max2(0, start), 1) ELSE @,
                  !.finalPercentage = Number(final, 1)]
            @@ [isSOCEstimated |-> estimate]

\* What loadChargeRegistry hands over: the charges given to
\* addMultipleCharges (added is FALSE when it is not called) and the charger
\* types given to updateSettings
HandOver(parsed, settings) ==
    [tag |-> "import", added |-> Len(parsed.charges) > 0,
     charges |-> [k \in 1..Len(parsed.charges) |->
                     ProcessCharge(parsed.charges[k], settings.batterySize)],
     newChargerTypes |-> parsed.newChargerTypes]

ImportFrom(lines, settings) ==
    IF Len(lines) < 2
    THEN [tag |-> "toast", added |-> FALSE, charges |-> <<>>, newChargerTypes |-> <<>>]
    ELSE HandOver(ImportLines([charges |-> <<>>, newChargerTypes |-> <<>>,
                               existingChargerNames |->
                                   {toLowerCase(settings.chargerTypes[k].name) :
                                       k \in 1..Len(settings.chargerTypes)}],
                              lines, 1, settings),
                  settings)

loadChargeRegistry(text, settings) == ImportFrom(NonBlankLines(text), settings)

-----------------------------------------------------------------------------
(* useProcessedData: the effect that processes the inputs in the worker    *)
(* and trains the two models.  A run of the effect is numbered; a value    *)
(* that a worker call produced carries the number of the run that issued   *)
(* the call (0 for null).                                                  *)

\* The state of the hook before its first effect: live is the run whose
\* isMounted flag is still true, pending the worker calls not yet settled,
\* written the setter calls made from promise callbacks (what was set, by
\* the callback of which run, while which run was live), dropped the calls
\* whose callback returned at its isMounted test
NewHook ==
    [runs |-> 0, live |-> 0, unmounted |-> FALSE,
     data |-> 0, isProcessing |-> FALSE,
     aiLoss |-> 0, aiScenarios |-> 0, aiSoH |-> 0, aiSoHStats |-> 0,
     aiCache |-> [hash |-> <<>>, run |-> 0],
     sohCache |-> [hash |-> <<>>, run |-> 0],
     pending |-> {}, written |-> {}, dropped |-> {}]

\* `${filteredTrips.length}_${filteredTrips[0]?.date}__${batterySize}_${soh}`
CurrentHash(inputs) == <<inputs.trips, inputs.settings>>

\* `${charges.length}_${charges[0]?.date}__${batterySize}__v8`
SohHash(inputs) == <<inputs.charges, inputs.settings>>

\* A flag that is never lowered
IsMountedAlways(h, run) == TRUE

\* isMounted of the closure of a run
IsMounted(h, run) == h.live = run

WorkerCall(fn, run, inputs, cacheHit, sohCacheHit) ==
    [fn |-> fn, run |-> run, inputs |-> inputs,
     cacheHit |-> cacheHit, sohCacheHit |-> sohCacheHit]

\* if (!isMounted) return
Dropped(h, call) ==
    [h EXCEPT !.pending = @ \ {call},
              !.dropped = @ \cup {[fn |-> call.fn, run |-> call.run]}]

Written(h, targets, run) ==
    h.written \cup {[target |-> t, run |-> run, live |-> h.live] : t \in targets}

\* The cleanup of the previous run followed by process() up to its await
StartEffect(h, inputs) ==
    LET run == h.runs + 1
        cacheHit == h.aiCache.run # 0 /\ h.aiCache.hash = CurrentHash(inputs)
        sohCacheHit == h.sohCache.run # 0 /\ h.sohCache.hash = SohHash(inputs)
    IN  IF inputs.trips = 0
        THEN [h EXCEPT !.runs = run, !.live = run, !.data = 0]
        ELSE [h EXCEPT !.runs = run, !.live = run,
                       !.isProcessing = TRUE,
                       !.aiScenarios = IF cacheHit THEN h.aiCache.run ELSE @,
                       !.aiLoss = IF cacheHit THEN h.aiCache.run ELSE @,
                       !.aiSoH = IF sohCacheHit THEN h.sohCache.run ELSE @,
                       !.aiSoHStats = IF sohCacheHit THEN h.sohCache.run ELSE @,
                       !.pending = @ \cup {WorkerCall("processData", run, inputs,
                                                      cacheHit, sohCacheHit)}]

\* The worker calls issued after processData has returned
Trainings(call) ==
    (IF ~call.cacheHit /\ call.inputs.trips > 5
     THEN {[call EXCEPT !.fn = "trainModel"]} ELSE {})
    \cup
    (IF ~call.sohCacheHit /\ call.inputs.charges > 0
     THEN {[call EXCEPT !.fn = "trainSoH"]} ELSE {})

\* process() from the return of processData to the end of finally
AfterProcessData(h, call) ==
    [h EXCEPT !.pending = (@ \ {call}) \cup Trainings(call),
              !.data = IF IsMounted(h, call.run) THEN call.run ELSE @,
              !.isProcessing = IF IsMounted(h, call.run) THEN FALSE ELSE @]

\* catch and finally when processData rejects
AfterProcessDataFailed(h, call) ==
    [h EXCEPT !.pending = @ \ {call},
              !.isProcessing = IF IsMounted(h, call.run) THEN FALSE ELSE @]

\* trainModel(...).then(({ loss }) => ...)
AfterTrainModel(h, call) ==
    IF ~IsMounted(h, call.run) THEN Dropped(h, call)
    ELSE [h EXCEPT !.pending = (@ \ {call}) \cup {[call EXCEPT !.fn = "getRangeScenarios"]},
                   !.aiLoss = call.run,
                   !.written = Written(h, {"aiLoss"}, call.run)]

\* getRangeScenarios(...).then(scenarios => ...)
AfterGetRangeScenarios(h, call) ==
    IF ~IsMounted(h, call.run) THEN Dropped(h, call)
    ELSE [h EXCEPT !.pending = @ \ {call},
                   !.aiScenarios = call.run,
                   !.aiCache = [hash |-> CurrentHash(call.inputs), run |-> call.run],
                   !.written = Written(h, {"aiScenarios", "aiCache"}, call.run)]

\* trainSoH(...).then(({ predictedSoH }) => ...)
AfterTrainSoH(h, call) ==
    IF ~IsMounted(h, call.run) THEN Dropped(h, call)
    ELSE [h EXCEPT !.pending = (@ \ {call}) \cup {[call EXCEPT !.fn = "getSoHStats"]},
                   !.aiSoH = call.run,
                   !.written = Written(h, {"aiSoH"}, call.run)]

\* getSoHStats(...).then(stats => ...)
AfterGetSoHStats(h, call) ==
    IF ~IsMounted(h, call.run) THEN Dropped(h, call)
    ELSE [h EXCEPT !.pending = @ \ {call},
                   !.aiSoHStats = call.run,
                   !.sohCache = [hash |-> SohHash(call.inputs), run |-> call.run],
                   !.written = Written(h, {"aiSoHStats", "sohCache"}, call.run)]

-----------------------------------------------------------------------------
(* googleDriveService.mergeData.  A Map is the sequence of its entries in  *)
(* insertion order; a setting is [defined, value], and a settings key that  *)
(* is absent is Undefined(key), whose value is never read.                 *)
(* Dates are day numbers, so that localeCompare on YYYY-MM-DD strings is   *)
(* the order of the numbers.                                               *)

Defined(v) == [defined |-> TRUE, value |-> v]

Undefined(key) ==
    [defined |-> FALSE,
     value |-> IF key = "carModel" THEN "" ELSE IF key = "odometerOffset" THEN 0 ELSE <<>>]

MapHas(map, key) == \E i \in 1..Len(map) : map[i].key = key

\* map.set(key, value): a key already present keeps its place
MapSet(map, key, value) ==
    IF MapHas(map, key)
    THEN [i \in 1..Len(map) |-> IF map[i].key = key THEN [key |-> key, value |-> value]
                                ELSE map[i]]
    ELSE Append(map, [key |-> key, value |-> value])

MapValues(map) == [i \in 1..Len(map) |-> map[i].value]

\* `${t.date}-${t.start_timestamp}`
TripKey(t) == <<t.date, t.start_timestamp>>

RECURSIVE SetAll(_, _)
SetAll(map, entries) ==
    IF entries = <<>> THEN map
    ELSE SetAll(MapSet(map, Head(entries).key, Head(entries).value), Tail(entries))

RECURSIVE SetMissing(_, _)

\* A remote entry that overwrites the local one
SetMissingAlways(map, entries) == SetAll(map, entries)
\* if (!map.has(key)) map.set(key, value), for each entry
SetMissing(map, entries) ==
    IF entries = <<>> THEN map
    ELSE SetMissing(IF MapHas(map, Head(entries).key) THEN map
                    ELSE MapSet(map, Head(entries).key, Head(entries).value),
                    Tail(entries))

TripEntries(trips) == [i \in 1..Len(trips) |-> [key |-> TripKey(trips[i]), value |-> trips[i]]]

MergedTrips(localTrips, remoteTrips) ==
    SortByDate(MapValues(SetMissing(SetAll(<<>>, TripEntries(localTrips)),
                                    TripEntries(remoteTrips))))

\* Of the keys with a default, soh and batterySize are not among the settings
\* modelled
IsDefault(key, val) ==
    \/ ~val.defined
    \/ key = "carModel" /\ val.value = ""
    \/ key = "odometerOffset" /\ val.value = 0

\* { ...remoteSettings, ...localSettings }[key], then the explicit merge
MergedSetting(key, localVal, remoteVal) ==
    IF IsDefault(key, localVal) /\ ~IsDefault(key, remoteVal) THEN remoteVal
    ELSE IF ~IsDefault(key, localVal) THEN localVal
    ELSE IF localVal.defined THEN localVal
    ELSE remoteVal

DefaultIds == {"domestic", "slow", "fast", "ultrafast"}

ChargerTypeEntries(types) == [i \in 1..Len(types) |-> [key |-> types[i].id, value |-> types[i]]]

HasId(types, id) == \E i \in 1..Len(types) : types[i].id = id

\* Remote first, overwritten by local, less the defaults deleted locally
ChargerTypeMap(localTypes, remoteTypes) ==
    SelectSeq(SetAll(SetAll(<<>>, ChargerTypeEntries(remoteTypes)),
                     ChargerTypeEntries(localTypes)),
              LAMBDA e : ~(/\ Len(localTypes) > 0
                           /\ e.key \in DefaultIds
                           /\ HasId(remoteTypes, e.key)
                           /\ ~HasId(localTypes, e.key)))

\* settings.chargerTypes || []
TypesOrEmpty(types) == IF types.defined THEN types.value ELSE <<>>

MergedChargerTypes(localTypes, remoteTypes) ==
    IF Len(ChargerTypeMap(TypesOrEmpty(localTypes), TypesOrEmpty(remoteTypes))) > 0
    THEN Defined(MapValues(ChargerTypeMap(TypesOrEmpty(localTypes),
                                          TypesOrEmpty(remoteTypes))))
    ELSE IF localTypes.defined THEN localTypes
    ELSE remoteTypes

SettingsOf(carModel, odometerOffset, chargerTypes) ==
    [carModel |-> carModel, odometerOffset |-> odometerOffset, chargerTypes |-> chargerTypes]

MergedSettings(localSettings, remoteSettings) ==
    SettingsOf(MergedSetting("carModel", localSettings.carModel, remoteSettings.carModel),
               MergedSetting("odometerOffset", localSettings.odometerOffset,
                             remoteSettings.odometerOffset),
               MergedChargerTypes(localSettings.chargerTypes, remoteSettings.chargerTypes))

\* c.timestamp ? String(c.timestamp) : `${c.date}T${c.time}`
ChargeKey(c) ==
    IF c.timestamp # 0 THEN <<"timestamp", c.timestamp>> ELSE <<"date", c.date, c.time>>

ChargeEntries(charges) ==
    [i \in 1..Len(charges) |-> [key |-> ChargeKey(charges[i]), value |-> charges[i]]]

RECURSIVE InsertByTimestampDesc(_, _)
InsertByTimestampDesc(sorted, c) ==
    IF sorted = <<>> THEN <<c>>
    ELSE IF Head(sorted).timestamp >= c.timestamp
         THEN <<Head(sorted)>> \o InsertByTimestampDesc(Tail(sorted), c)
         ELSE <<c>> \o sorted

\* sort((a, b) => (b.timestamp || 0) - (a.timestamp || 0)), stable
RECURSIVE SortByTimestampDesc(_)
SortByTimestampDesc(cs) ==
    IF cs = <<>> THEN <<>>
    ELSE InsertByTimestampDesc(SortByTimestampDesc(SubSeq(cs, 1, Len(cs) - 1)), cs[Len(cs)])

MergedCharges(localCharges, remoteCharges) ==
    SortByTimestampDesc(MapValues(SetMissing(SetAll(<<>>, ChargeEntries(localCharges)),
                                             ChargeEntries(remoteCharges))))

mergeData(localData, remoteData) ==
    [trips |-> MergedTrips(localData.trips, remoteData.trips),
     settings |-> MergedSettings(localData.settings, remoteData.settings),
     charges |-> MergedCharges(localData.charges, remoteData.charges)]

-----------------------------------------------------------------------------
(* useGoogleSync.  local is what the hook receives as localTrips, settings *)
(* and localCharges; remote is the file of the target name on Drive, where *)
(* no legacy backup exists.  Each call of performSync or resolveConflict   *)
(* is a run: it keeps the values its closure captured when it was called,  *)
(* and records whether it has set local state and whether it has uploaded. *)

SyncData(trips, settings, charges) ==
    [trips |-> trips, settings |-> settings, charges |-> charges]

NoSettings ==
    SettingsOf(Undefined("carModel"), Undefined("odometerOffset"), Undefined("chargerTypes"))

\* { trips: [], settings: {}, charges: [] }
EmptyData == SyncData(<<>>, NoSettings, <<>>)

NoConflict ==
    [set |-> FALSE, localData |-> EmptyData, remoteData |-> EmptyData, differences |-> {}]

NewSync ==
    [mounted |-> FALSE, local |-> EmptyData, remote |-> [exists |-> FALSE, data |-> EmptyData],
     isSyncing |-> FALSE, error |-> FALSE, pendingConflict |-> NoConflict, runs |-> <<>>]

CarModelDiffers(localSettings, remoteSettings) ==
    /\ localSettings.carModel.defined /\ localSettings.carModel.value # ""
    /\ remoteSettings.carModel.defined /\ remoteSettings.carModel.value # ""
    /\ localSettings.carModel.value # remoteSettings.carModel.value

OdometerOffsetDiffers(localSettings, remoteSettings) ==
    /\ localSettings.odometerOffset.defined
    /\ remoteSettings.odometerOffset.defined
    /\ localSettings.odometerOffset.value # remoteSettings.odometerOffset.value
    /\ localSettings.odometerOffset.value # 0
    /\ remoteSettings.odometerOffset.value # 0

TripCountDiffers(localData, remoteData) ==
    Abs(Len(localData.trips) - Len(remoteData.trips)) > 10

\* The labels of detectConflict's differences; none is no conflict
detectConflict(localData, remoteData) ==
    {label \in {"carModel", "odometerOffset", "tripCount"} :
        \/ label = "carModel" /\ CarModelDiffers(localData.settings, remoteData.settings)
        \/ label = "odometerOffset"
            /\ OdometerOffsetDiffers(localData.settings, remoteData.settings)
        \/ label = "tripCount" /\ TripCountDiffers(localData, remoteData)}

NewRun(kind, pc, newTripsData, options, local) ==
    [kind |-> kind, caller |-> "user", pc |-> pc, newTripsData |-> newTripsData,
     forcePull |-> options.forcePull, forcePush |-> options.forcePush,
     local |-> local, merged |-> EmptyData, written |-> <<>>,
     wroteLocal |-> FALSE, uploaded |-> FALSE, outcome |-> "running"]

\* performSync up to its first await
performSync(s, newTripsData, options, online) ==
    IF ~online
    THEN [s EXCEPT !.error = TRUE, !.isSyncing = FALSE,
                   !.runs = Append(@, [NewRun("performSync", "done", newTripsData, options,
                                              s.local) EXCEPT !.outcome = "offline"])]
    ELSE [s EXCEPT !.isSyncing = TRUE, !.error = FALSE,
                   !.runs = Append(@, NewRun("performSync", "listFiles", newTripsData,
                                             options, s.local))]

\* newTripsData || localTrips
CurrentTrips(run) ==
    IF run.newTripsData.given THEN run.newTripsData.trips ELSE run.local.trips

LocalDataToMerge(run) == SyncData(CurrentTrips(run), run.local.settings, run.local.charges)

ConflictChecked(run, remoteData) ==
    /\ Len(CurrentTrips(run)) > 0
    /\ Len(remoteData.trips) > 0
    /\ ~run.forcePull
    /\ ~run.forcePush

IsFreshLogin(run, remoteData) == Len(CurrentTrips(run)) = 0 /\ Len(remoteData.trips) > 0

Merged(run, remoteData) ==
    IF IsFreshLogin(run, remoteData) \/ run.forcePull THEN remoteData
    ELSE IF run.forcePush THEN LocalDataToMerge(run)
    ELSE mergeData(LocalDataToMerge(run), remoteData)

\* The guard of the merge branch
MergeEmptied(run, remoteData) ==
    /\ ~(IsFreshLogin(run, remoteData) \/ run.forcePull)
    /\ ~run.forcePush
    /\ Len(Merged(run, remoteData).trips) = 0
    /\ Len(CurrentTrips(run)) > 0

\* A conflict that pauses the run and changes local state all the same
PausedAfterPull(s, i, remoteData) ==
    [s EXCEPT !.pendingConflict = [set |-> TRUE, localData |-> LocalDataToMerge(s.runs[i]),
                                   remoteData |-> remoteData,
                                   differences |-> detectConflict(LocalDataToMerge(s.runs[i]),
                                                                  remoteData)],
              !.isSyncing = FALSE,
              !.local = remoteData,
              !.runs[i] = [@ EXCEPT !.pc = "done", !.outcome = "conflict"]]
\* setPendingConflict, setIsSyncing(false), return
Paused(s, i, remoteData) ==
    [s EXCEPT !.pendingConflict = [set |-> TRUE, localData |-> LocalDataToMerge(s.runs[i]),
                                   remoteData |-> remoteData,
                                   differences |-> detectConflict(LocalDataToMerge(s.runs[i]),
                                                                  remoteData)],
              !.isSyncing = FALSE,
              !.runs[i] = [@ EXCEPT !.pc = "done", !.outcome = "conflict"]]

\* catch and finally
Thrown(s, i) ==
    [s EXCEPT !.error = TRUE,
              !.isSyncing = IF s.runs[i].kind = "performSync" THEN FALSE ELSE @,
              !.runs[i] = [@ EXCEPT !.pc = "done", !.outcome = "error"]]

\* setLocalTrips, setSettings, setLocalCharges, up to the await of uploadFile
LocalUpdated(s, i, merged) ==
    [s EXCEPT !.local = merged,
              !.runs[i] = [@ EXCEPT !.pc = "uploadFile", !.merged = merged,
                                    !.written = merged.trips, !.wroteLocal = TRUE]]

\* From the remote data to the await of uploadFile, or to the return
AfterDownload(s, i, remoteData) ==
    IF /\ ConflictChecked(s.runs[i], remoteData)
       /\ detectConflict(LocalDataToMerge(s.runs[i]), remoteData) # {}
    THEN Paused(s, i, remoteData)
    ELSE IF MergeEmptied(s.runs[i], remoteData) THEN Thrown(s, i)
    ELSE LocalUpdated(s, i, Merged(s.runs[i], remoteData))

\* listFiles returns: a file is downloaded, no file is empty remote data
AfterListFiles(s, i) ==
    IF s.remote.exists THEN [s EXCEPT !.runs[i].pc = "downloadFile"]
    ELSE AfterDownload(s, i, EmptyData)

\* uploadFile returns, and the run ends
AfterUpload(s, i) ==
    [s EXCEPT !.remote = [exists |-> TRUE, data |-> s.runs[i].merged],
              !.isSyncing = IF s.runs[i].kind = "performSync" THEN FALSE ELSE @,
              !.pendingConflict = IF s.runs[i].kind = "resolveConflict" THEN NoConflict ELSE @,
              !.runs[i] = [@ EXCEPT !.pc = "done", !.uploaded = TRUE, !.outcome = "ok"]]

FinalData(conflict, resolution) ==
    IF resolution = "local" THEN conflict.localData
    ELSE IF resolution = "cloud" THEN conflict.remoteData
    ELSE mergeData(conflict.localData, conflict.remoteData)

NoTripsGiven == [given |-> FALSE, trips |-> <<>>]

NoOptions == [forcePull |-> FALSE, forcePush |-> FALSE]

\* resolveConflict up to the await of uploadFile
resolveConflict(s, resolution) ==
    [s EXCEPT !.local = FinalData(s.pendingConflict, resolution),
              !.runs = Append(@, [NewRun("resolveConflict", "uploadFile", NoTripsGiven,
                                         NoOptions, s.local)
                                  EXCEPT !.merged = FinalData(s.pendingConflict, resolution),
                                         !.written = FinalData(s.pendingConflict,
                                                               resolution).trips,
                                         !.wroteLocal = TRUE])]

-----------------------------------------------------------------------------
(* useTrips.  storage is localStorage under the trips key of each car (no  *)
(* item and [] both read as <<>>); a render commits activeCarId and        *)
(* rawTrips, then runs the effects whose dependencies changed, in order,   *)
(* each with the values of that render; setRawTrips queues the next state. *)

Cars == {"A", "B"}

NoCar == "null"

NotQueued == [set |-> FALSE, trips |-> <<>>]

Queued(trips) == [set |-> TRUE, trips |-> trips]

NewStore ==
    [mounted |-> FALSE, storage |-> [car \in Cars |-> <<>>], activeCarId |-> NoCar,
     rawTrips |-> <<>>, queued |-> NotQueued]

\* StorageService.get(storageKey, [])
StoredTrips(st, carId) == IF carId = NoCar THEN <<>> ELSE st.storage[carId]

\* The load effect: setRawTrips of what is stored under the key, [] with no key
LoadEffect(st) == [st EXCEPT !.queued = Queued(StoredTrips(st, st.activeCarId))]

\* The persistence effect: save rawTrips under the key when there are any
PersistenceEffect(st) ==
    IF st.activeCarId # NoCar /\ Len(st.rawTrips) > 0
    THEN [st EXCEPT !.storage[st.activeCarId] = st.rawTrips]
    ELSE st

\* The commit of a render in which storageKey changed (or the first one):
\* both effects run, the load effect first
CommitWithKey(st, carId) ==
    PersistenceEffect(LoadEffect([st EXCEPT !.mounted = TRUE, !.activeCarId = carId]))

\* The commit of the render for a queued state: rawTrips changed, the key did not
CommitWithTrips(st) ==
    PersistenceEffect([st EXCEPT !.rawTrips = st.queued.trips, !.queued = NotQueued])

\* clearData: setRawTrips([]) and StorageService.remove(storageKey)
clearData(st) ==
    IF st.activeCarId # NoCar
    THEN [st EXCEPT !.queued = Queued(<<>>), !.storage[st.activeCarId] = <<>>]
    ELSE [st EXCEPT !.queued = Queued(<<>>)]

-----------------------------------------------------------------------------
(* State machine: one action per call                                      *)

Init ==
    /\ op = "none"
    /\ args = None
    /\ ret = None
    /\ again = None
    /\ svc = NewService
    /\ calls = <<>>
    /\ hook = NewHook
    /\ sync = NewSync
    /\ store = NewStore

\* Each call starts from the idle state: the functions keep no state between calls.
FindSmartChargingWindows ==
    /\ op = "none"
    /\ \E n \in 2..MaxTrips, s0 \in FirstStarts, g1 \in ParkingGaps, g2 \in ParkingGaps,
          kwh \in TripEnergies, enabled \in BOOLEAN, sch \in Schedules,
          amps \in ChargerRatings, delay \in CallDelays :
        LET trips == TripHistory(n, s0, g1, g2, Hour, kwh)
            st == SchedulerSettings(enabled, sch, amps)
            now == EndMin(trips[n]) + delay \div 60
        IN  /\ op' = "findSmartChargingWindows"
            /\ args' = [trips |-> trips, settings |-> st, now |-> now]
            /\ ret' = findSmartChargingWindows(trips, st, now)
            /\ again' = None
            /\ UNCHANGED <<predictor, hooks>>

\* The same call repeated at another moment
FindSmartChargingWindowsAgain ==
    /\ op = "findSmartChargingWindows"
    /\ again = None
    /\ \E delay \in CallDelays :
        LET now == EndMin(args.trips[Len(args.trips)]) + delay \div 60
        IN  again' = [tag |-> "again", now |-> now,
                      ret |-> findSmartChargingWindows(args.trips, args.settings, now)]
    /\ UNCHANGED <<op, args, ret>>
    /\ UNCHANGED <<predictor, hooks>>

Charge(type, totalCost, kwhCharged, timestamp, mo) ==
    [type |-> type, totalCost |-> totalCost, kwhCharged |-> kwhCharged,
     timestamp |-> timestamp, date |-> [y |-> 2024, mo |-> mo, d |-> 1]]

\* Charge histories: cost in cents, energy in kWh
ChargeHistories ==
    { <<>>,
      <<Charge("electric", 900, 20, 1, 9)>>,
      <<Charge("electric", 900, 20, 2, 11), Charge("electric", 150, 20, 1, 9)>>,
      <<Charge("fuel", 5000, 0, 1, 3), Charge("electric", 320, 20, 0, 12)>> }

OffPeakStarts == {NoTime, Time(0, 0), Time(0, 30), Time(22, 0), Time(8, 0)}

OffPeakEnds == {NoTime, Time(0, 0), Time(6, 0), Time(8, 0), Time(8, 30)}

\* Prices in cents per kWh
OffPeakPrices == {0, 10}

\* Average daily consumption in 0.01 kWh
DailyConsumptions == {0, 1400, 1472, 2800, 6000}

CalculateCostSavings ==
    /\ op = "none"
    /\ \E charges \in ChargeHistories, enabled \in BOOLEAN, s \in OffPeakStarts,
          e \in OffPeakEnds, price \in OffPeakPrices, amps \in {0, 16},
          avg \in DailyConsumptions :
        LET st == [DefaultSettings EXCEPT !.offPeakEnabled = enabled, !.offPeakStart = s,
                                          !.offPeakEnd = e, !.offPeakPrice = price,
                                          !.homeChargerRating = amps]
        IN  /\ op' = "calculateCostSavings"
            /\ args' = [charges |-> charges, settings |-> st, avgDailyConsumptionKwh |-> avg]
            /\ ret' = calculateCostSavings(charges, st, avg)
            /\ again' = None
            /\ UNCHANGED <<predictor, hooks>>

\* Instants in hours: 31 March, 15 January and 1 July of the second year, noon
Nows == {(365 + 89) * 24 + 12, (365 + 14) * 24 + 12, (365 + 181) * 24 + 12}

\* Dates parse to midnight; days before the call
DaysBefore == {3, 28, 30, 31, 45}

CostAnalyses ==
    {None} \cup
    { [tag |-> "cost", potentialMonthlySavings |-> Rat(n, 1), feasibleInOffPeak |-> f,
       deficitKwh |-> IF f THEN 0 ELSE 500, offPeakWindowHours |-> 8]
      : n \in {0, 100, 250}, f \in BOOLEAN }

\* Weekly need in 0.01 kWh
WeeklyNeeds == {0, 5443, 5444, 9000}

DateBefore(now, days) == (now \div 24 - days) * 24

GetChargingRecommendation ==
    /\ op = "none"
    /\ \E now \in Nows, cal \in {0} \cup DaysBefore, slow \in {0} \cup DaysBefore,
          cost \in CostAnalyses, weekly \in WeeklyNeeds, soh \in {90, 100} :
        LET st == [DefaultSettings EXCEPT !.soh = soh]
            lastCalibrationDate == IF cal = 0 THEN NoDate ELSE DateBefore(now, cal)
            lastSlowChargeDate == IF slow = 0 THEN NoDate ELSE DateBefore(now, slow)
        IN  /\ op' = "getChargingRecommendation"
            /\ args' = [lastCalibrationDate |-> lastCalibrationDate,
                        lastSlowChargeDate |-> lastSlowChargeDate,
                        costAnalysis |-> cost, weeklyKwh |-> weekly,
                        settings |-> st, now |-> now]
            /\ ret' = getChargingRecommendation(lastCalibrationDate, lastSlowChargeDate,
                                                cost, weekly, st, now)
            /\ again' = None
            /\ UNCHANGED <<predictor, hooks>>

\* A trip history for the detector: consecutive trips of one hour that use 3
\* points of charge each; gaps[i] seconds of parking follow trip i, over which
\* the state of charge falls by drops[i] points (rises when negative).
RECURSIVE HealthTrips(_, _, _, _, _, _)
HealthTrips(n, start, soc, gaps, drops, electricity) ==
    IF n = 0 THEN <<>>
    ELSE <<[start_timestamp |-> start, end_timestamp |-> start + Hour,
            start_soc |-> soc, end_soc |-> soc - 3,
            electricity |-> electricity, trip |-> 10, date |-> start \div Day]>>
         \o (IF n = 1 THEN <<>>
             ELSE HealthTrips(n - 1, start + Hour + Head(gaps), soc - 3 - Head(drops),
                              Tail(gaps), Tail(drops), electricity))

Reverse(xs) == [i \in 1..Len(xs) |-> xs[Len(xs) + 1 - i]]

HealthGaps == {Hour, 48 * Hour, 96 * Hour, 501 * Day}

SocDrops == {-5, 5, 10}

SeqsOf(S, n) == [1..n -> S]

HealthCharge(id, h, m, kwh) ==
    [id |-> id, date |-> 19680, time |-> Time(h, m), kwhCharged |-> kwh,
     initialPercentage |-> 20, finalPercentage |-> 80]

\* Charges metered in 0.01 kWh
HealthCharges ==
    { <<>>,
      <<HealthCharge(1, 15, 0, 5000)>>,
      <<HealthCharge(1, 7, 30, 5000), HealthCharge(2, 15, 0, 6500)>> }

CheckSystemHealth ==
    /\ op = "none"
    /\ \E n \in 2..MaxHealthTrips, reversed \in BOOLEAN, electricity \in {200, 400},
          soh \in {70, 80, 95}, avgEff \in {0, 1600}, charges \in HealthCharges :
       \E gaps \in SeqsOf(HealthGaps, n - 1), drops \in SeqsOf(SocDrops, n - 1) :
        LET chrono == HealthTrips(n, Sunday0 + Day + 8 * Hour, 90, gaps, drops, electricity)
            trips == IF reversed THEN Reverse(chrono) ELSE chrono
            data == [soh |-> soh, avgEff |-> avgEff]
        IN  /\ op' = "checkSystemHealth"
            /\ args' = [data |-> data, settings |-> DefaultSettings,
                        charges |-> charges, trips |-> trips]
            /\ ret' = [tag |-> "anomalies",
                       anomalies |-> checkSystemHealth(data, DefaultSettings, charges, trips)]
            /\ again' = None
            /\ UNCHANGED <<predictor, hooks>>

\* train calls and trainSoH calls made on one predictor instance; the two
\* kinds touch disjoint fields, so a run follows one kind
MaxCalls == 3

MaxSoHCalls == 2

OnlyCalls(kind) == \A j \in 1..Len(calls) : calls[j].kind = kind

TrainTrip(trip, electricity, duration) ==
    [trip |-> trip, electricity |-> electricity, duration |-> duration]

\* 30 km in half an hour on 5 kWh
GoodTrip == TrainTrip(30, 5, 1800)

\* No distance recorded
EmptyTrip == TrainTrip(0, 0, 600)

TrainingSets ==
    { <<GoodTrip, GoodTrip, GoodTrip, GoodTrip>>,
      <<GoodTrip, GoodTrip, GoodTrip, GoodTrip, GoodTrip>>,
      <<GoodTrip, GoodTrip, GoodTrip, GoodTrip, EmptyTrip>>,
      <<EmptyTrip, EmptyTrip, EmptyTrip, EmptyTrip, EmptyTrip>> }

\* What a model answers at the three scenario points (0.1 kWh/100km), before
\* clamping: the weights are whatever the optimiser has reached
ModelOutputs == {<<145, 175, 235>>, <<50, 120, 450>>}

FitLosses == {12}

\* Operations after which the predictor may be called again
PredictorIdle == {"none", "train", "trainAfterFit", "trainSoH", "trainSoHAfterFit"}

\* The calls that are at their await
Awaiting == {j \in 1..Len(calls) : calls[j].pc = "fit"}

\* train up to its await (or to its early return); the call records which
\* calls were awaiting when it started
Train ==
    /\ op \in PredictorIdle
    /\ Len(calls) < MaxCalls
    /\ OnlyCalls("train")
    /\ \E trips \in TrainingSets, weights \in ModelOutputs :
        LET id == Len(calls) + 1
            r == TrainBegin(svc, id, trips, weights)
        IN  /\ svc' = r.svc
            /\ UNCHANGED hooks
            /\ calls' = Append(calls, r.call @@ [during |-> Awaiting])
            /\ op' = "train"
            /\ args' = [call |-> id]
            /\ ret' = r.call.result
            /\ again' = None

\* The fit of call i completes and the call runs to its end
TrainAfterFit ==
    /\ op \in PredictorIdle
    /\ \E i \in 1..Len(calls), weights \in ModelOutputs, loss \in FitLosses :
        /\ calls[i].kind = "train"
        /\ calls[i].pc = "fit"
        /\ LET r == TrainEnd(svc, i, calls[i], weights, loss)
           IN  /\ svc' = r.svc
               /\ UNCHANGED hooks
               /\ calls' = [calls EXCEPT ![i] = r.call]
               /\ op' = "trainAfterFit"
               /\ args' = [call |-> i]
               /\ ret' = r.call.result
               /\ again' = None

Predict ==
    /\ op \in PredictorIdle
    /\ OnlyCalls("train")
    /\ \E k \in 1..3 :
        /\ op' = "predict"
        /\ args' = [scenario |-> k]
        /\ ret' = [tag |-> "efficiency", value |-> predict(svc, k)]
        /\ again' = None
    /\ UNCHANGED <<predictor, hooks>>

\* Battery capacities in 0.01 kWh and states of health in percent
BatteryCapacities == {5, 6048, 8256}

SohValues == {1, 87, 100}

GetScenarios ==
    /\ op \in PredictorIdle
    /\ OnlyCalls("train")
    /\ \E batteryCapacity \in BatteryCapacities, soh \in SohValues :
        /\ op' = "getScenarios"
        /\ args' = [batteryCapacity |-> batteryCapacity, soh |-> soh]
        /\ ret' = [tag |-> "scenarios", scenarios |-> getScenarios(svc, batteryCapacity, soh)]
        /\ again' = None
    /\ UNCHANGED <<predictor, hooks>>

\* Charging sessions for the state-of-health model
SoHCharge(kwhCharged, initialPercentage, finalPercentage, date) ==
    [kwhCharged |-> kwhCharged, initialPercentage |-> initialPercentage,
     finalPercentage |-> finalPercentage, date |-> date]

\* Sessions implying 60, 58 and 56 kWh, and a shallow one
ChargeA == SoHCharge(3000, 20, 70, 19700)

ChargeB == SoHCharge(1160, 50, 70, 19710)

ChargeC == SoHCharge(2800, 30, 80, 19730)

ShallowCharge == SoHCharge(240, 76, 80, 19720)

\* Sessions whose implied capacity (100 kWh, 12.5 kWh) is not plausible for a
\* battery of 60.48 kWh, before, between and after the others
Outliers ==
    { SoHCharge(1000, 20, 30, 19690), SoHCharge(1000, 10, 90, 19705),
      SoHCharge(1000, 20, 30, 19740), SoHCharge(1000, 10, 90, 19700) }

SoHDatasets ==
    { <<ChargeA, ChargeB>>,
      <<ChargeA, ChargeB, ShallowCharge>>,
      <<ChargeC, ChargeA, ChargeB>>,
      <<ChargeA, ChargeB, ChargeC, ShallowCharge, ChargeA>> }

NominalCapacities == {0, 6048}

\* What the fitted line answers for the last day (0.01 kWh)
SoHOutputs == {3000, 5800}

InsertAt(xs, p, x) == SubSeq(xs, 1, p - 1) \o <<x>> \o SubSeq(xs, p, Len(xs))

\* trainSoH up to its await (or to its early return)
TrainSoH ==
    /\ op \in PredictorIdle
    /\ Len(calls) < MaxSoHCalls
    /\ OnlyCalls("trainSoH")
    /\ \E charges \in SoHDatasets, nominalCapacity \in NominalCapacities :
        LET id == Len(calls) + 1
            r == TrainSoHBegin(svc, id, charges, nominalCapacity)
        IN  /\ svc' = r.svc
            /\ UNCHANGED hooks
            /\ calls' = Append(calls, r.call @@ [during |-> Awaiting, extends |-> 0])
            /\ op' = "trainSoH"
            /\ args' = [call |-> id]
            /\ ret' = r.call.result
            /\ again' = None

\* trainSoH on the charges of an earlier call with one implausible session
\* added somewhere in the list
TrainSoHWithOutlier ==
    /\ op \in PredictorIdle
    /\ Len(calls) < MaxSoHCalls
    /\ \E i \in 1..Len(calls), outlier \in Outliers :
        /\ calls[i].kind = "trainSoH"
        /\ calls[i].extends = 0
        /\ \E p \in 1..Len(calls[i].charges) + 1 :
            LET id == Len(calls) + 1
                charges == InsertAt(calls[i].charges, p, outlier)
                r == TrainSoHBegin(svc, id, charges, calls[i].nominalCapacity)
            IN  /\ svc' = r.svc
                /\ UNCHANGED hooks
                /\ calls' = Append(calls, r.call @@ [during |-> Awaiting, extends |-> i])
                /\ op' = "trainSoH"
                /\ args' = [call |-> id]
                /\ ret' = r.call.result
                /\ again' = None

\* The fit of trainSoH call i completes and the call runs to its end
TrainSoHAfterFit ==
    /\ op \in PredictorIdle
    /\ \E i \in 1..Len(calls), output \in SoHOutputs, loss \in FitLosses :
        /\ calls[i].kind = "trainSoH"
        /\ calls[i].pc = "fit"
        /\ LET r == TrainSoHEnd(svc, i, calls[i], output, loss)
           IN  /\ svc' = r.svc
               /\ UNCHANGED hooks
               /\ calls' = [calls EXCEPT ![i] = r.call]
               /\ op' = "trainSoHAfterFit"
               /\ args' = [call |-> i]
               /\ ret' = r.call.result
               /\ again' = None

\* A session of 7 points implying 60 kWh, before the others
LightCharge == SoHCharge(420, 70, 77, 19695)

PlotDatasets ==
    SoHDatasets \cup {<<ChargeB, LightCharge, ChargeA, ChargeC>>}

GetSoHDataPoints ==
    /\ op \in PredictorIdle
    /\ OnlyCalls("trainSoH")
    /\ \E charges \in PlotDatasets, nominalCapacity \in NominalCapacities :
        /\ op' = "getSoHDataPoints"
        /\ args' = [charges |-> charges, nominalCapacity |-> nominalCapacity]
        /\ ret' = [tag |-> "points",
                   points |-> getSoHDataPoints(svc, charges, nominalCapacity)]
        /\ again' = None
    /\ UNCHANGED <<predictor, hooks>>

\* Histories for the tyre check: trip i of 10 km, one day after the previous
\* one, using 4 kWh (40 kWh/100km) when i is in high and 2 kWh otherwise
MaxTireTrips == 6

TireTrips(n, high) ==
    [i \in 1..n |->
        [start_timestamp |-> Sunday0 + i * Day, end_timestamp |-> Sunday0 + i * Day + Hour,
         start_soc |-> 90, end_soc |-> 87, trip |-> 10, date |-> 19673 + i,
         electricity |-> IF i \in high THEN 400 ELSE 200]]

AnalyzeTireHealth ==
    /\ op = "none"
    /\ \E n \in 1..MaxTireTrips, reversed \in BOOLEAN :
       \E high \in SUBSET (1..n) :
        LET chrono == TireTrips(n, high)
            trips == IF reversed THEN Reverse(chrono) ELSE chrono
            summary == [soh |-> 95, avgEff |-> 1600]
        IN  /\ op' = "analyzeTireHealth"
            /\ args' = [trips |-> trips, summary |-> summary]
            /\ ret' = [tag |-> "anomalies", anomalies |-> analyzeTireHealth(trips, summary)]
            /\ again' = None
            /\ UNCHANGED <<predictor, hooks>>

\* Files to import: the header line followed by up to MaxCsvRows lines
MaxCsvRows == 2

CsvHeader == "Date,Odometer,kWh,Cost,SoC,Type,Price,Final"

CsvLines ==
    {"2024-01-30 14:30,15000,50.5,12.50,20,SuperCharger,0.25,80",
     "INVALID-DATE,15000,50.5,12.50,20,SuperCharger,0.25,80",
     "2024-01-31 14:30,15050,50.5,12.50,,SuperCharger,0.25,80",
     "2024-02-01 08:00,-100,10,2.5,30,Home,0.25,60",
     "2024-02-02 09:15,15100,10,2.5,30,home,0.25,150",
     "\"2024-02-04 11:00\",15300,12.1,3.63,0,\"Fast, DC\",0.3,89.5",
     "2024-02-05 12:00,15400,-10,1,50,Home,0.25,70",
     "2024-02-06 12:00,15500,10,-1,50,Home,0.25,70",
     "2024-02-07 12:00,15600,10,1,50,Home,-0.25,70",
     "2024-02-08T07:05 ,15700,n/a, 0 ,120,Home,0.25,70,note",
     "2024-02-09 07:05,15800,60,9,5,fast, dc,0.15,-3",
     "   "}

CsvSettings ==
    [chargerTypes |-> <<[id |-> "home", name |-> "Home", speedKw |-> 7, efficiency |-> 1]>>,
     batterySize |-> 6048]

CsvFiles ==
    UNION {[1..n -> CsvLines] : n \in 0..MaxCsvRows}

LoadChargeRegistry ==
    /\ op = "none"
    /\ \E rows \in CsvFiles :
        /\ op' = "loadChargeRegistry"
        /\ args' = [text |-> <<CsvHeader>> \o rows, settings |-> CsvSettings]
        /\ ret' = loadChargeRegistry(<<CsvHeader>> \o rows, CsvSettings)
        /\ again' = None
        /\ UNCHANGED <<predictor, hooks>>

\* Data sets to merge: up to MaxMergeTrips trips on each side, out of four trips
\* with three keys (one key in two versions)
MaxMergeTrips == 2

SyncTrip(date, start, version) ==
    [date |-> date, start_timestamp |-> start, version |-> version]

MergeTrips ==
    {SyncTrip(19700, 100, "a"), SyncTrip(19700, 100, "b"), SyncTrip(19700, 200, "a"),
     SyncTrip(19690, 100, "a")}

SyncCharge(timestamp, time, version) ==
    [timestamp |-> timestamp, date |-> 19700, time |-> time, version |-> version]

MergeCharges ==
    <<<<>>, <<SyncCharge(0, "10:00", "a"), SyncCharge(500, "10:00", "a")>>,
     <<SyncCharge(500, "11:00", "b"), SyncCharge(0, "10:00", "b"), SyncCharge(900, "12:00", "b")>>>>

ChargerTypeOf(id, version) == [id |-> id, version |-> version]

MergeSettings ==
    <<SettingsOf(Undefined("carModel"), Undefined("odometerOffset"), Undefined("chargerTypes")),
      SettingsOf(Defined("Seal"), Defined(0),
                 Defined(<<ChargerTypeOf("slow", "a"), ChargerTypeOf("home", "a")>>)),
      SettingsOf(Defined("Atto 3"), Defined(500),
                 Defined(<<ChargerTypeOf("domestic", "b"), ChargerTypeOf("slow", "b")>>))>>

TripLists(n) == UNION {[1..k -> MergeTrips] : k \in 0..n}

\* The settings and the charges of the two sides
MergeRest ==
    {<<s[1], s[2], c[1], c[2]>> :
        s \in {<<MergeSettings[1], MergeSettings[2]>>, <<MergeSettings[2], MergeSettings[3]>>,
               <<MergeSettings[3], MergeSettings[1]>>},
        c \in {<<MergeCharges[1], MergeCharges[2]>>, <<MergeCharges[2], MergeCharges[3]>>}}

MergeInput(trips, settings, charges) ==
    [trips |-> trips, settings |-> settings, charges |-> charges]

MergeData ==
    /\ op = "none"
    /\ \E localTrips \in TripLists(MaxMergeTrips), remoteTrips \in TripLists(MaxMergeTrips),
          rest \in MergeRest :
        /\ op' = "mergeData"
        /\ args' = [localData |-> MergeInput(localTrips, rest[1], rest[3]),
                    remoteData |-> MergeInput(remoteTrips, rest[2], rest[4])]
        /\ ret' = mergeData(MergeInput(localTrips, rest[1], rest[3]),
                            MergeInput(remoteTrips, rest[2], rest[4]))
        /\ again' = None
        /\ UNCHANGED <<predictor, hooks>>

\* The hook: mounted with local data and a Drive of a few shapes, then up to
\* MaxSyncs calls of performSync and resolveConflict
MaxSyncs == 2

SealSettings ==
    SettingsOf(Defined("Seal"), Defined(0), Undefined("chargerTypes"))

AttoSettings ==
    SettingsOf(Defined("Atto 3"), Defined(500), Undefined("chargerTypes"))

LocalShapes ==
    {EmptyData,
     SyncData(<<SyncTrip(19700, 100, "a")>>, SealSettings, <<SyncCharge(500, "10:00", "a")>>)}

RemoteShapes ==
    {[exists |-> FALSE, data |-> EmptyData],
     [exists |-> TRUE, data |-> EmptyData],
     [exists |-> TRUE, data |-> SyncData(<<SyncTrip(19690, 100, "a")>>, SealSettings, <<>>)],
     [exists |-> TRUE, data |-> SyncData(<<SyncTrip(19700, 100, "b")>>, AttoSettings, <<>>)]}

\* syncNow's arguments
SyncCalls ==
    {<<NoTripsGiven, NoOptions>>,
     <<NoTripsGiven, [forcePull |-> TRUE, forcePush |-> FALSE]>>,
     <<NoTripsGiven, [forcePull |-> FALSE, forcePush |-> TRUE]>>,
     <<[given |-> TRUE, trips |-> <<SyncTrip(19700, 200, "a")>>], NoOptions>>}

SyncIdle == {"none", "useGoogleSync"}

SyncStep(s) ==
    /\ op \in SyncIdle
    /\ op' = "useGoogleSync"
    /\ sync' = s
    /\ UNCHANGED <<args, ret, again, predictor, hook, store>>

UseGoogleSync ==
    /\ ~sync.mounted
    /\ \E local \in LocalShapes, remote \in RemoteShapes :
        SyncStep([sync EXCEPT !.mounted = TRUE, !.local = local, !.remote = remote])

CanSync == sync.mounted /\ Len(sync.runs) < MaxSyncs

\* syncNow: after an import, from the settings, or with the registry skipped
SyncNow ==
    /\ CanSync
    /\ \E call \in SyncCalls : SyncStep(performSync(sync, call[1], call[2], TRUE))

SyncNowOffline ==
    /\ CanSync
    /\ SyncStep(performSync(sync, NoTripsGiven, NoOptions, FALSE))

\* The page becomes visible more than two minutes after the last sync
HandleVisibilityChange ==
    /\ CanSync
    /\ ~sync.isSyncing
    /\ SyncStep([performSync(sync, NoTripsGiven, NoOptions, TRUE)
                   EXCEPT !.runs[Len(sync.runs) + 1].caller = "visibilitychange"])

At(pc) == {i \in 1..Len(sync.runs) : sync.runs[i].pc = pc}

ListFilesReturns ==
    \E i \in At("listFiles") : SyncStep(AfterListFiles(sync, i))

DownloadFileReturns ==
    \E i \in At("downloadFile") : SyncStep(AfterDownload(sync, i, sync.remote.data))

UploadFileReturns ==
    \E i \in At("uploadFile") : SyncStep(AfterUpload(sync, i))

\* An awaited call of the Drive service rejects
DriveCallFails ==
    \E i \in At("listFiles") \cup At("downloadFile") \cup At("uploadFile") :
        SyncStep(Thrown(sync, i))

ResolveConflict ==
    /\ CanSync
    /\ sync.pendingConflict.set
    /\ \E resolution \in {"local", "cloud", "merge"} :
        SyncStep(resolveConflict(sync, resolution))

\* The hook: what earlier sessions stored for each car, then renders with the
\* active car and the trips the application sets for it
CarTrip(car, n) == [car |-> car, n |-> n]

TripsOfCar(car) == {<<>>, <<CarTrip(car, 1)>>, <<CarTrip(car, 1), CarTrip(car, 2)>>}

StoreIdle == {"none", "useTrips"}

StoreStep(st) ==
    /\ op \in StoreIdle
    /\ op' = "useTrips"
    /\ store' = st
    /\ UNCHANGED <<args, ret, again, predictor, hook, sync>>

\* The first render
UseTrips ==
    /\ ~store.mounted
    /\ \E a \in TripsOfCar("A"), b \in TripsOfCar("B"), carId \in Cars \cup {NoCar} :
        StoreStep(CommitWithKey([store EXCEPT !.storage = [car \in Cars |->
                                                             IF car = "A" THEN a ELSE b]],
                                carId))

\* The render for the state an effect or the application has set
RenderQueued ==
    /\ store.mounted
    /\ store.queued.set
    /\ StoreStep(CommitWithTrips(store))

\* The active car changes
ChangeActiveCar ==
    /\ store.mounted
    /\ ~store.queued.set
    /\ \E carId \in (Cars \cup {NoCar}) \ {store.activeCarId} :
        StoreStep(CommitWithKey(store, carId))

\* The application sets the trips of the active car (an import, a sync)
SetRawTrips ==
    /\ store.mounted
    /\ ~store.queued.set
    /\ store.activeCarId # NoCar
    /\ \E trips \in TripsOfCar(store.activeCarId) \ {store.rawTrips} :
        StoreStep([store EXCEPT !.queued = Queued(trips)])

ClearData ==
    /\ store.mounted
    /\ ~store.queued.set
    /\ StoreStep(clearData(store))

\* The hook: each run of the effect takes inputs of a few shapes (number of
\* trips, number of charges, battery size)
MaxRuns == 2

HookInputs ==
    [trips : {0, 5, 6}, charges : {0, 2}, settings : {6048}]

HookIdle == {"none", "useProcessedData"}

HookStep(h) ==
    /\ op \in HookIdle
    /\ op' = "useProcessedData"
    /\ hook' = h
    /\ UNCHANGED <<args, ret, again, predictor, sync, store>>

\* The inputs change (or the hook mounts): React runs the cleanup of the
\* previous effect, then the effect
RunEffect ==
    /\ ~hook.unmounted
    /\ hook.runs < MaxRuns
    /\ \E inputs \in HookInputs : HookStep(StartEffect(hook, inputs))

Unmount ==
    /\ ~hook.unmounted
    /\ hook.runs > 0
    /\ HookStep([hook EXCEPT !.live = 0, !.unmounted = TRUE])

Settled(fn) == {c \in hook.pending : c.fn = fn}

ProcessDataReturns ==
    \E call \in Settled("processData") : HookStep(AfterProcessData(hook, call))

ProcessDataFails ==
    \E call \in Settled("processData") : HookStep(AfterProcessDataFailed(hook, call))

TrainModelReturns ==
    \E call \in Settled("trainModel") : HookStep(AfterTrainModel(hook, call))

\* .catch(err => logger.warn(...)), or a rejection nobody handles
WorkerCallFails ==
    \E call \in hook.pending :
        /\ call.fn # "processData"
        /\ HookStep([hook EXCEPT !.pending = @ \ {call}])

GetRangeScenariosReturns ==
    \E call \in Settled("getRangeScenarios") : HookStep(AfterGetRangeScenarios(hook, call))

TrainSoHReturns ==
    \E call \in Settled("trainSoH") : HookStep(AfterTrainSoH(hook, call))

GetSoHStatsReturns ==
    \E call \in Settled("getSoHStats") : HookStep(AfterGetSoHStats(hook, call))

Next ==
    \/ FindSmartChargingWindows
    \/ FindSmartChargingWindowsAgain
    \/ CalculateCostSavings
    \/ GetChargingRecommendation
    \/ CheckSystemHealth
    \/ AnalyzeTireHealth
    \/ Train
    \/ TrainAfterFit
    \/ Predict
    \/ GetScenarios
    \/ TrainSoH
    \/ TrainSoHWithOutlier
    \/ TrainSoHAfterFit
    \/ GetSoHDataPoints
    \/ LoadChargeRegistry
    \/ MergeData
    \/ RunEffect
    \/ Unmount
    \/ ProcessDataReturns
    \/ ProcessDataFails
    \/ TrainModelReturns
    \/ GetRangeScenariosReturns
    \/ TrainSoHReturns
    \/ GetSoHStatsReturns
    \/ WorkerCallFails
    \/ UseGoogleSync
    \/ SyncNow
    \/ SyncNowOffline
    \/ HandleVisibilityChange
    \/ ListFilesReturns
    \/ DownloadFileReturns
    \/ UploadFileReturns
    \/ DriveCallFails
    \/ ResolveConflict
    \/ UseTrips
    \/ RenderQueued
    \/ ChangeActiveCar
    \/ SetRawTrips
    \/ ClearData

Spec == Init /\ [][Next]_vars

-----------------------------------------------------------------------------
(* Properties                                                              *)

Scheduled == op = "findSmartChargingWindows" /\ ret.tag = "windows"

\* a.n / a.d < b.n / b.d
Less(a, b) == RatLess(a.n, a.d, b.n, b.d)

\* C1: a result whose hoursFound is below requiredHours carries the note
\* 'insufficient_time' together with its (partial) window list, and a result
\* whose hoursFound reaches requiredHours carries no note.
C1_NoteMarksShortfall ==
    Scheduled =>
        IF Less(ret.hoursFound, ret.requiredHours)
        THEN ret.note = "insufficient_time"
        ELSE ret.note = "undefined"

C1_Witness ==
    /\ Scheduled
    /\ Less(ret.hoursFound, ret.requiredHours)
    /\ Len(ret.windows) >= 2
    /\ ret.note = "insufficient_time"

MinuteOfDay(t) == t.h * 60 + t.m

RECURSIVE WindowMinutes(_)
WindowMinutes(ws) ==
    IF ws = <<>> THEN 0
    ELSE (MinuteOfDay(Head(ws).end) - MinuteOfDay(Head(ws).start)) + WindowMinutes(Tail(ws))

\* C2: hoursFound equals the sum over the returned windows of
\* (end minute - start minute) / 60.
C2_HoursFoundIsWindowSum ==
    Scheduled => ret.hoursFound = Rat(WindowMinutes(ret.windows), 60)

\* The off-peak period of a day, in minutes from that day's midnight; a period
\* whose end is not after its start runs into the next day.
PeriodStart(dayIdx, st) == MinuteOfDay(getOffPeakSchedule(dayIdx, st).start)

PeriodEnd(dayIdx, st) ==
    LET e == MinuteOfDay(getOffPeakSchedule(dayIdx, st).end)
    IN  IF e <= PeriodStart(dayIdx, st) THEN e + DayMin ELSE e

\* A window's end in minutes from its day's midnight: windows are longer than
\* half an hour, so an end not after the start is on the next day.
WindowEndFromMidnight(w) ==
    IF MinuteOfDay(w.end) <= MinuteOfDay(w.start)
    THEN MinuteOfDay(w.end) + DayMin ELSE MinuteOfDay(w.end)

InsideOffPeak(w, st) ==
    /\ PeriodStart(w.dayIndex, st) <= MinuteOfDay(w.start)
    /\ WindowEndFromMidnight(w) <= PeriodEnd(w.dayIndex, st)

\* C3: every returned window lies inside the off-peak period of its day
\* (weekend start/end where configured, else the general ones, else
\* 00:00-08:00), merged and averaged slots included.
C3_WindowsInsideOffPeak ==
    Scheduled => \A i \in 1..Len(ret.windows) : InsideOffPeak(ret.windows[i], args.settings)

\* The consolidated slots behind the result of the recorded call
SlotsOfCall ==
    Consolidate(Candidates(LastFourteen(Gaps(ValidTrips(args.trips), 1)), args.settings), <<>>)

\* A returned weekend window that averages two candidates with different
\* starts, under a weekend tariff that differs from the general one.
C3_Witness ==
    /\ Scheduled
    /\ HasTime(args.settings.offPeakStartWeekend)
    /\ \E i \in 1..Len(ret.windows) :
        /\ IsWeekend(ret.windows[i].dayIndex)
        /\ \E k \in 1..Len(SlotsOfCall) :
            /\ SlotsOfCall[k].count >= 2
            /\ SlotsOfCall[k].sumStart # SlotsOfCall[k].count * SlotsOfCall[k].key[2]
            /\ Window(AvailableSlot(SlotsOfCall[k])) = ret.windows[i]

\* C4: two calls with the same trips and settings return the same windows,
\* weeklyKwh and requiredHours, whenever they are made.
C4_SameResultAtAnyMoment ==
    (op = "findSmartChargingWindows" /\ again # None) =>
        /\ again.ret.tag = ret.tag
        /\ ret.tag = "windows" =>
            /\ again.ret.windows = ret.windows
            /\ again.ret.weeklyKwh = ret.weeklyKwh
            /\ again.ret.requiredHours = ret.requiredHours

FallbackWindow(dayIdx) ==
    [dayIndex |-> dayIdx, start |-> Time(0, 0), end |-> Time(8, 0), endDay |-> NoDay]

\* C5: called without a departure oracle (the function takes none), the
\* result is the plan Monday to Friday 00:00-08:00 with note 'ai_missing'.
C5_FallbackWithoutOracle ==
    op = "findSmartChargingWindows" =>
        /\ ret.tag = "windows"
        /\ ret.note = "ai_missing"
        /\ ret.windows = [i \in 1..5 |-> FallbackWindow(i)]

\* Saturday 0, Sunday 1, Monday 2 ... Friday 6
SaturdayFirst(dayIdx) == (dayIdx + 1) % 7

\* C6: windows are ordered Saturday, Sunday, Monday ... Friday, and by
\* ascending start time within a day.
C6_SaturdayFirstThenByStart ==
    Scheduled =>
        \A i \in 1..Len(ret.windows) - 1 :
            LET a == ret.windows[i]
                b == ret.windows[i + 1]
            IN  \/ SaturdayFirst(a.dayIndex) < SaturdayFirst(b.dayIndex)
                \/ /\ a.dayIndex = b.dayIndex
                   /\ MinuteOfDay(a.start) <= MinuteOfDay(b.start)

CostCalled == op = "calculateCostSavings"

\* C7: with offPeakEnabled false, calculateCostSavings returns
\* {potentialMonthlySavings: 0, feasibleInOffPeak: true, deficitKwh: 0,
\* offPeakWindowHours: 0} for every list of charges and every consumption.
C7_DisabledReturnsZeroes ==
    (CostCalled /\ ~args.settings.offPeakEnabled) =>
        ret = [tag |-> "cost", potentialMonthlySavings |-> Rat(0, 1),
               feasibleInOffPeak |-> TRUE, deficitKwh |-> 0, offPeakWindowHours |-> 0]

\* Disabled, while everything else would produce figures: a window and a
\* price are set, charges cost more than off-peak, consumption exceeds the window
C7_Witness ==
    /\ CostCalled
    /\ ~args.settings.offPeakEnabled
    /\ ~CostDisabledAlsoWhenEnabled(args.settings)
    /\ TotalSavings(args.charges, args.settings.offPeakPrice) > 0
    /\ args.avgDailyConsumptionKwh > ChargerPower(args.settings) * 24
    /\ ret.offPeakWindowHours = 0

\* Length in minutes of the configured window offPeakStart-offPeakEnd
ConfiguredWindowMinutes(st) ==
    LET s == MinuteOfDay(st.offPeakStart)
        e == MinuteOfDay(st.offPeakEnd)
    IN  IF e > s THEN e - s ELSE (DayMin - s) + e

\* C8: with off-peak configured, offPeakWindowHours is the length of the
\* configured window, feasibleInOffPeak holds exactly when chargerPower times
\* that length covers the average daily consumption, deficitKwh is the
\* shortfall when infeasible and 0 when feasible.
C8_FeasibleIffWindowCovers ==
    (CostCalled /\ ~CostDisabled(args.settings)) =>
        LET minutes == ConfiguredWindowMinutes(args.settings)
            energy60 == ChargerPower(args.settings) * minutes
            need60 == args.avgDailyConsumptionKwh * 60
        IN  /\ ret.offPeakWindowHours * 60 = minutes
            /\ ret.feasibleInOffPeak <=> energy60 >= need60
            /\ ret.feasibleInOffPeak <=> ret.deficitKwh = 0
            /\ ~ret.feasibleInOffPeak => ret.deficitKwh * 60 = need60 - energy60

Recommended == op = "getChargingRecommendation"

\* The three conditions as the claim words them
NeedExceedsCapacity == args.weeklyKwh * 100 > args.settings.batterySize * args.settings.soh

BalancingUnknownOrOld ==
    LET known == IF args.lastCalibrationDate # NoDate THEN args.lastCalibrationDate
                 ELSE args.lastSlowChargeDate
    IN  known = NoDate \/ known < OneMonthAgo(args.now)

SavingsWorthIt ==
    /\ args.costAnalysis # None
    /\ Less(Rat(100, 1), args.costAnalysis.potentialMonthlySavings)
    /\ args.costAnalysis.feasibleInOffPeak

\* C9: the recommendation follows the priority order capacity overrun
\* ('mixed', 'recommend_mixed'), then unknown or older-than-a-month balancing
\* ('recommend_calibration'), then worthwhile feasible savings
\* ('recommend_offpeak'), then 'recommend_slow_sufficient'.
C9_PriorityOrder ==
    Recommended =>
        IF NeedExceedsCapacity THEN ret.type = "mixed" /\ ret.reason = "recommend_mixed"
        ELSE IF BalancingUnknownOrOld THEN ret.reason = "recommend_calibration"
        ELSE IF SavingsWorthIt THEN ret.reason = "recommend_offpeak"
        ELSE ret.reason = "recommend_slow_sufficient"

\* Balancing is overdue and savings are on offer at once: calibration wins
C9_Witness ==
    /\ Recommended
    /\ ~NeedExceedsCapacity
    /\ BalancingUnknownOrOld
    /\ args.lastSlowChargeDate # NoDate
    /\ SavingsWorthIt
    /\ ret.reason = "recommend_calibration"

HealthChecked == op = "checkSystemHealth"

Drains == SelectSeq(ret.anomalies, LAMBDA a : a.type = "drain")

\* Parking time in seconds and charge lost between trips i and i + 1 of the
\* chronological history; the timestamps are epoch seconds
ParkedSeconds(ts, i) == ts[i + 1].start_timestamp - ts[i].end_timestamp

SocLost(ts, i) == ts[i].end_soc - ts[i + 1].start_soc

\* Gap i is the only long parking of the history
OnlyLongGap(ts, i) ==
    \A j \in 1..Len(ts) - 1 : j # i => ParkedSeconds(ts, j) <= 12 * Hour

\* C10: a history (timestamps in epoch seconds) with a 48-hour gap over which
\* the charge drops 10 points gives exactly one 'drain' anomaly, of severity
\* 'warning'; a drop of 2.5 points per day gives one of severity 'info'.
C10_DrainOverTwoDays ==
    HealthChecked =>
        LET ts == SortByStart(args.trips)
        IN  \A i \in 1..Len(ts) - 1 :
                (OnlyLongGap(ts, i) /\ ParkedSeconds(ts, i) = 48 * Hour) =>
                    /\ SocLost(ts, i) = 10 =>
                          Len(Drains) = 1 /\ Drains[1].severity = "warning"
                    /\ SocLost(ts, i) = 5 =>
                          Len(Drains) = 1 /\ Drains[1].severity = "info"

\* The parking gaps of the chronological history that pass the detector's
\* tests (parked more than 12 h, charge lower at the next start, loss above
\* 2 % per 24 h)
QualifyingGaps(ts) == {i \in 1..Len(ts) - 1 : DrainQualifies(ts[i], ts[i + 1])}

LastOf(S) == CHOOSE i \in S : \A j \in S : j <= i

\* C11: at most one 'drain' anomaly is returned, and when several parking
\* gaps qualify the one reported is the most recent of them.
C11_MostRecentQualifyingGap ==
    HealthChecked =>
        LET ts == SortByStart(args.trips)
        IN  /\ Len(Drains) <= 1
            /\ QualifyingGaps(ts) # {} =>
                  /\ Len(Drains) = 1
                  /\ Drains[1].timestamp = ts[LastOf(QualifyingGaps(ts)) + 1].start_timestamp

\* The (at most) five chronologically most recent trips
MostRecentFive(trips) ==
    LET s == SortByStart(trips)
    IN  SubSeq(s, Max2(1, Len(s) - 4), Len(s))

\* C12: the tire-pressure anomaly is emitted exactly when at least 3 of the 5
\* chronologically most recent trips consumed more than 125 % of the average,
\* in whatever order the trips are passed.
C12_TireCheckOnMostRecentFive ==
    op = "analyzeTireHealth" =>
        (ret.anomalies # <<>>
            <=> CountHigh(MostRecentFive(args.trips), args.summary.avgEff) >= 3)

TrainCalls == {i \in 1..Len(calls) : calls[i].kind = "train"}

LastTrain == LastOf(TrainCalls)

UsableTrips(trips) == Len(SelectSeq(trips, UsableTrip))

Untrained ==
    /\ ~svc.isTrained
    /\ \A k \in 1..3 : predict(svc, k) = FallbackEfficiency

\* C13 as stated: a train call with fewer than 5 usable samples returns
\* {loss: 0, samples: 0} and leaves the predictor untrained (predict gives
\* 16.0), whatever earlier calls did.
C13_FewUsableSamplesLeavesUntrained ==
    \A i \in TrainCalls :
        (UsableTrips(calls[i].trips) < 5 /\ calls[i].pc # "fit") =>
            /\ calls[i].result = TrainAborted
            /\ i = LastTrain => Untrained

\* C13 amended: a train call given fewer than 5 trips returns
\* {loss: 0, samples: 0} and, until the next train call starts, the predictor
\* is untrained and predict gives 16.0, whatever earlier calls did or do.
C13_FewTripsLeavesUntrained ==
    \A i \in TrainCalls :
        Len(calls[i].trips) < 5 =>
            /\ calls[i].result = TrainAborted
            /\ i = LastTrain => Untrained

\* An earlier call trained the model, a call with four trips followed, and
\* predict is asked
C13_Witness ==
    /\ op = "predict"
    /\ Len(calls) = 2
    /\ calls[1].kind = "train" /\ calls[1].pc = "returned" /\ calls[1].result.samples > 0
    /\ calls[2].kind = "train" /\ calls[2].during = {}
    /\ Len(calls[2].trips) < 5
    /\ ret.value = FallbackEfficiency

\* C14: no train call ends by raising an exception, in any interleaving of
\* train calls on one predictor.
C14_TrainNeverThrows ==
    \A i \in TrainCalls : calls[i].pc # "thrown"

\* What the train call started last leaves in the predictor when it is done
WrittenByLast ==
    IF Len(calls[LastTrain].trips) < 5
    THEN /\ svc.efficiencyModel = NullModel
         /\ svc.normalizationData = NullModel
         /\ ~svc.isTrained
    ELSE /\ svc.efficiencyModel # NullModel /\ svc.efficiencyModel.by = LastTrain
         /\ svc.normalizationData # NullModel /\ svc.normalizationData.by = LastTrain
         /\ svc.isTrained

\* C15: once all (overlapping) train calls have completed, the model, the
\* normalization statistics and the trained flag are those written by the call
\* that started last.
C15_LastStartedWins ==
    (TrainCalls # {} /\ \A i \in TrainCalls : calls[i].pc # "fit") => WrittenByLast

\* Two calls with enough trips overlapped and both have returned
C15_Witness ==
    /\ Len(calls) = 2
    /\ calls[1].kind = "train" /\ calls[2].kind = "train"
    /\ calls[2].during = {1}
    /\ calls[1].pc = "returned" /\ calls[2].pc = "returned"
    /\ calls[1].result.samples > 0 /\ calls[2].result.samples > 0
    /\ svc.efficiencyModel.by = 2

ScenariosAsked == op = "getScenarios"

\* Three entries, City, Mixed, Highway, each with predict's efficiency
ThreeScenarios ==
    /\ Len(ret.scenarios) = 3
    /\ \A k \in 1..3 :
        /\ ret.scenarios[k].name = ScenarioNames[k]
        /\ ret.scenarios[k].efficiency = predict(svc, k)

\* usableCapacity / efficiency * 100 as the fraction n / d, from the
\* arguments (capacity in 0.01 kWh, efficiency in 0.1 kWh/100km)
RangeNumerator == args.batteryCapacity * args.soh

RangeDenominator(k) == 10 * ret.scenarios[k].efficiency

\* C18 as stated: three entries City, Mixed, Highway, each range equal to
\* usableCapacity / efficiency * 100 and positive.
C18_RangeIsExactQuotient ==
    ScenariosAsked =>
        /\ ThreeScenarios
        /\ \A k \in 1..3 :
            /\ ret.scenarios[k].range * RangeDenominator(k) = RangeNumerator
            /\ ret.scenarios[k].range > 0

\* C18 amended: three entries City, Mixed, Highway, each range the integer
\* nearest to usableCapacity / efficiency * 100 (halves up); it is never
\* negative and is positive as soon as that quotient reaches 0.5.
C18_RangeIsRoundedQuotient ==
    ScenariosAsked =>
        /\ ThreeScenarios
        /\ \A k \in 1..3 :
            LET r == ret.scenarios[k].range
                d == RangeDenominator(k)
            IN  /\ 2 * r * d - 2 * RangeNumerator <= d
                /\ 2 * RangeNumerator - 2 * r * d < d
                /\ r >= 0
                /\ (2 * RangeNumerator >= d) => r > 0

\* A trained model is asked and a range had to be rounded
C18_Witness ==
    /\ ScenariosAsked
    /\ svc.isTrained
    /\ ret.scenarios[1].efficiency # FallbackEfficiency
    /\ ret.scenarios[1].range * RangeDenominator(1) # RangeNumerator
    /\ ret.scenarios[1].range > 0

SoHCalls == {i \in 1..Len(calls) : calls[i].kind = "trainSoH"}

\* The deep-session filter as the claim words it
DeepSession(c) ==
    /\ c.kwhCharged > 0
    /\ c.finalPercentage - c.initialPercentage >= 5
    /\ c.date # 0

\* Implied capacity within [0.5 x nominal, 1.5 x nominal]
InsideSanityRange(c, nominalCapacity) ==
    LET cap == ImpliedCapacity(c)
    IN  /\ ~RatLess(cap.n, cap.d, nominalCapacity, 2)
        /\ ~RatLess(3 * nominalCapacity, 2, cap.n, cap.d)

DeepSessions(i) == SelectSeq(calls[i].charges, DeepSession)

SaneSessions(i) ==
    SelectSeq(DeepSessions(i), LAMBDA c : InsideSanityRange(c, calls[i].nominalCapacity))

TooLittleForSoH(i) ==
    \/ calls[i].nominalCapacity <= 0
    \/ Len(DeepSessions(i)) < 3
    \/ Len(SaneSessions(i)) < 3

\* C16: trainSoH returns predictedSoH 100 with samples 0, without throwing,
\* when the nominal capacity is not positive, or fewer than 3 charges pass the
\* deep-session filter, or fewer than 3 remain after the sanity filter.
C16_SoHFallsBackTo100 ==
    \A i \in SoHCalls :
        TooLittleForSoH(i) =>
            /\ calls[i].pc = "returned"
            /\ calls[i].result.predictedSoH = 100 * 100
            /\ calls[i].result.samples = 0

\* Three deep sessions of which one is implausible: the second test aborts
C16_Witness ==
    \E i \in SoHCalls :
        /\ calls[i].nominalCapacity > 0
        /\ Len(DeepSessions(i)) >= 3
        /\ Len(SaneSessions(i)) < 3
        /\ calls[i].result = SoHAborted

\* C17: a session whose implied capacity is outside [0.5, 1.5] x nominal
\* enters neither the median nor the regression samples: adding one to a
\* dataset leaves the median, the sample count and the regression inputs as
\* they were.
C17_OutlierChangesNothing ==
    \A j \in SoHCalls :
        calls[j].extends # 0 => calls[j].inputs = calls[calls[j].extends].inputs

\* The added session is the earliest of the list (it sets the first date) and
\* the dataset is large enough to be fitted
C17_Witness ==
    \E j \in SoHCalls :
        /\ calls[j].extends # 0
        /\ calls[j].inputs # None
        /\ \E c \in Outliers :
            /\ SelectSeq(calls[j].charges, LAMBDA x : x = c) # <<>>
            /\ \A k \in 1..Len(calls[j].charges) : calls[j].charges[k].date >= c.date
            /\ \A k \in 1..Len(calls[calls[j].extends].charges) :
                  calls[calls[j].extends].charges[k].date > c.date


\* The first field holds a YYYY-MM-DD date followed, after optional blanks,
\* by HH:MM
ContainsDateAndTime(s) ==
    \E i \in 1..Len(s), j \in 1..Len(s) :
        /\ DateAt(s, i)
        /\ j >= i + 10
        /\ \A k \in (i + 10)..(j - 1) : Ch(s, k) \in Whitespace
        /\ TimeAt(s, j)

RowAccepted(line) ==
    /\ Len(CsvValues(line)) >= 8
    /\ ContainsDateAndTime(CsvValues(line)[1])
    /\ parseChargeCsvLine(CsvValues(line)) # Null
    /\ ChargeCsvRowSchema(parseChargeCsvLine(CsvValues(line)))

DataRows(text) == Tail(NonBlankLines(text))

AcceptedRows(text) == SelectSeq(DataRows(text), LAMBDA l : RowAccepted(l))

InRange(x, lo, hi) == ~x.nan /\ x.n >= lo * x.d /\ x.n <= hi * x.d

\* C19: the charges handed to addMultipleCharges are, in order, exactly the
\* rows that parseChargeCsvLine accepts (at least 8 fields, a date followed
\* by a time in the first) and ChargeCsvRowSchema validates, whatever rows
\* were rejected around them; none has a negative odometer, energy, cost or
\* price, or a final percentage outside 0..100
C19_OnlyValidRowsImported ==
    op = "loadChargeRegistry" =>
        LET accepted == AcceptedRows(args.text)
        IN  /\ Len(ret.charges) = Len(accepted)
            /\ ret.added = (Len(accepted) > 0)
            /\ \A k \in 1..Len(ret.charges) :
                LET c == ret.charges[k]
                    row == parseChargeCsvLine(CsvValues(accepted[k]))
                IN  /\ c.date = row.date /\ c.time = row.time
                    /\ c.odometer = row.odometer
                    /\ c.kwhCharged = row.kwhCharged
                    /\ c.totalCost = row.totalCost
                    /\ c.pricePerKwh = row.pricePerKwh
                    /\ ~c.odometer.nan /\ c.odometer.n >= 0
                    /\ ~c.kwhCharged.nan /\ c.kwhCharged.n >= 0
                    /\ ~c.totalCost.nan /\ c.totalCost.n >= 0
                    /\ ~c.pricePerKwh.nan /\ c.pricePerKwh.n >= 0
                    /\ InRange(c.finalPercentage, 0, 100)

\* A file whose first data row is turned down by the parser, whose second
\* one is imported, and another whose first row is turned down by the schema
C19_Witness ==
    /\ op = "loadChargeRegistry"
    /\ Len(DataRows(args.text)) = 2
    /\ ~RowAccepted(DataRows(args.text)[1])
    /\ parseChargeCsvLine(CsvValues(DataRows(args.text)[1])) # Null
    /\ RowAccepted(DataRows(args.text)[2])
    /\ Len(ret.charges) = 1
    /\ ret.added


\* The slots of the recorded call in the order the bucket loop visits them
FillOrder == SortByScore(AvailableSlots(SlotsOfCall))

\* hoursFound less the average duration (minutes over 60) of a slot
HoursWithout(hoursFound, slot) ==
    Rat(hoursFound.n * slot.count * 60 - slot.totalDur * hoursFound.d,
        hoursFound.d * slot.count * 60)

\* C20: the windows returned are the first slots in order of decreasing
\* average duration, and hoursFound less the duration of the last slot taken
\* is strictly below requiredHours: no slot is taken once the need is met.
C20_BucketFillIsMinimal ==
    (Scheduled /\ Len(ret.windows) >= 1) =>
        LET n == Len(ret.windows)
        IN  /\ n <= Len(FillOrder)
            /\ \A k \in 1..(Len(FillOrder) - 1) :
                    LongerOrEqual(FillOrder[k], FillOrder[k + 1])
            /\ ret.windows = SortByDay(Windows(SubSeq(FillOrder, 1, n)))
            /\ Less(HoursWithout(ret.hoursFound, FillOrder[n]), ret.requiredHours)

\* A call that takes two slots, reaches the need and leaves a slot untaken
C20_Witness ==
    /\ Scheduled
    /\ Len(ret.windows) >= 2
    /\ Len(ret.windows) < Len(FillOrder)
    /\ ~Less(ret.hoursFound, ret.requiredHours)

\* The candidates of the recorded call, in the order the merge visits them
CandidatesOfCall ==
    Candidates(LastFourteen(Gaps(ValidTrips(args.trips), 1)), args.settings)

\* The first candidate behind a slot: the one that opened its key
FirstCandidateOf(slot) ==
    LET at == {i \in 1..Len(CandidatesOfCall) :
                  /\ CandidatesOfCall[i].dayIndex = slot.dayIndex
                  /\ CandidateStartMins(CandidatesOfCall[i]) = slot.key[2]}
    IN  CandidatesOfCall[CHOOSE i \in at : \A j \in at : i <= j]

StartsApart(a, b, minutes) ==
    Abs(a.sumStart * b.count - b.sumStart * a.count) > minutes * a.count * b.count

\* C21: after the merge no two slots of one weekday start within 60 minutes
\* of each other, and a slot keeps the start and the end of the first
\* candidate that opened it.
C21_CollapseKeepsFirst ==
    (Scheduled /\ args.settings.offPeakEnabled) =>
        /\ \A i, j \in 1..Len(SlotsOfCall) :
            (i < j /\ SlotsOfCall[i].dayIndex = SlotsOfCall[j].dayIndex)
                => StartsApart(SlotsOfCall[i], SlotsOfCall[j], 60)
        /\ \A i \in 1..Len(SlotsOfCall) :
            LET slot == SlotsOfCall[i]
                first == FirstCandidateOf(slot)
            IN  /\ slot.sumStart = slot.count * CandidateStartMins(first)
                /\ slot.sumEnd = slot.count * (CandidateStartMins(first) + first.duration)

\* C22: every value that a promise callback of useProcessedData has written
\* to aiLoss, aiScenarios, aiSoH, aiSoHStats or to the two caches came from
\* a call of the run that was live at that moment: nothing is written for
\* inputs that have changed since, or after the hook has unmounted.
C22_NoStaleResultWritten ==
    \A w \in hook.written : w.run = w.live /\ w.run # 0

\* The results of both chains of the first run arrived after the inputs had
\* changed and were dropped, while the second run wrote its own
C22_Witness ==
    /\ \E d \in hook.dropped : d.fn = "trainModel" /\ d.run = 1
    /\ \E d \in hook.dropped : d.fn = "getSoHStats" /\ d.run = 1
    /\ \E w \in hook.written : w.run = 2 /\ w.target = "aiCache"

\* C26: once no processData call is outstanding, isProcessing is false.
C26_ProcessingEnds ==
    ({c \in hook.pending : c.fn = "processData"} = {}) => ~hook.isProcessing

MergeCalled == op = "mergeData"

Range(s) == {s[i] : i \in 1..Len(s)}

TripKeys(trips) == {TripKey(t) : t \in Range(trips)}

\* The last trip of the list with the key
LastWithKey(trips, key) ==
    trips[CHOOSE i \in 1..Len(trips) :
            /\ TripKey(trips[i]) = key
            /\ \A j \in (i + 1)..Len(trips) : TripKey(trips[j]) # key]

OnePerKey ==
    /\ TripKeys(ret.trips) = TripKeys(args.localData.trips) \cup TripKeys(args.remoteData.trips)
    /\ \A i, j \in 1..Len(ret.trips) : TripKey(ret.trips[i]) = TripKey(ret.trips[j]) => i = j
    /\ Range(ret.trips) \subseteq Range(args.localData.trips) \cup Range(args.remoteData.trips)

LocalWins ==
    \A t \in Range(ret.trips) :
        TripKey(t) \in TripKeys(args.localData.trips) => t \in Range(args.localData.trips)

SortedByDate ==
    \A i, j \in 1..Len(ret.trips) : i < j => ret.trips[i].date <= ret.trips[j].date

SelfMerge == args.localData.trips = args.remoteData.trips

DistinctKeys(trips) ==
    \A i, j \in 1..Len(trips) : TripKey(trips[i]) = TripKey(trips[j]) => i = j

\* C23 as stated: one trip per key of either side, the local one where both
\* sides have the key, sorted by date, and a data set merged with itself
\* gives the same set of trips.
C23_SelfMergeIsSameSet ==
    MergeCalled =>
        /\ OnePerKey
        /\ LocalWins
        /\ SortedByDate
        /\ SelfMerge => Range(ret.trips) = Range(args.localData.trips)

\* C23: mergeData returns one trip per key of either side, the local one
\* where both sides have the key, sorted by date; a data set no two trips of
\* which share a key, merged with itself, gives the same set of trips, and
\* one with a repeated key gives the last trip of each key.
C23_OneTripPerKey ==
    MergeCalled =>
        /\ OnePerKey
        /\ LocalWins
        /\ SortedByDate
        /\ SelfMerge =>
            /\ Range(ret.trips) = {LastWithKey(args.localData.trips, k) :
                                     k \in TripKeys(args.localData.trips)}
            /\ DistinctKeys(args.localData.trips) =>
                Range(ret.trips) = Range(args.localData.trips)

C23_Witness ==
    /\ MergeCalled
    /\ SelfMerge
    /\ Len(args.localData.trips) = 2
    /\ DistinctKeys(args.localData.trips)
    /\ args.localData.trips[1].date > args.localData.trips[2].date
    /\ ret.trips = Reverse(args.localData.trips)

SyncRuns == {sync.runs[i] : i \in 1..Len(sync.runs)}

PerformSyncRuns == {run \in SyncRuns : run.kind = "performSync"}

InProgress(run) == run.pc \in {"listFiles", "downloadFile", "uploadFile"}

\* C24: a performSync called with a non-empty local trip list writes a
\* non-empty trip list to local state, or ends without writing local state or
\* the remote file (with an error, or paused for a conflict).
C24_SyncNeverWipesLocal ==
    \A run \in PerformSyncRuns :
        Len(run.local.trips) > 0 =>
            /\ run.wroteLocal => Len(run.written) > 0
            /\ (run.pc = "done" /\ ~run.wroteLocal) =>
                (~run.uploaded /\ run.outcome \in {"error", "offline", "conflict"})

\* C27: at most one performSync run is between its listFiles and the end of
\* its uploadFile.
C27_OneSyncAtATime ==
    Cardinality({i \in 1..Len(sync.runs) :
                    sync.runs[i].kind = "performSync" /\ InProgress(sync.runs[i])}) <= 1

ConflictRuns == {i \in 1..Len(sync.runs) : sync.runs[i].outcome = "conflict"}

\* The step in which run i of performSync finds a conflict
ConflictDetected(i) ==
    /\ i \in 1..Len(sync.runs)
    /\ sync.runs[i].outcome = "running"
    /\ sync'.runs[i].outcome = "conflict"

ModelOwner == calls[svc.efficiencyModel.by]

\* C29: isTrained is true only when the model in efficiencyModel has
\* completed its fit and normalizationData is the one stored with it, so that
\* predict never evaluates a model whose fit is still running.
C29_TrainedModelIsFitted ==
    (OnlyCalls("train") /\ svc.isTrained /\ svc.efficiencyModel # NullModel) =>
        /\ ModelOwner.pc # "fit"
        /\ svc.normalizationData # NullModel
        /\ svc.normalizationData.by = svc.efficiencyModel.by

\* The charges trainSoH sorts, and those it trains on
TrainingCharges(charges) == SortByDate(SelectSeq(charges, DeepCharge))

TrainedOn(charges, nominalCapacity) ==
    {c \in Range(TrainingCharges(charges)) : Plausible(c, nominalCapacity)}

\* C30: every point of getSoHDataPoints is placed on the trend line at the
\* day offset trainSoH gives its charge (days since the first charge of the
\* training set), and is a charge trainSoH trains on.
C30_SameTimeOrigin ==
    op = "getSoHDataPoints" =>
        \A p \in Range(ret.points) :
            /\ p.charge \in TrainedOn(args.charges, args.nominalCapacity)
            /\ p.days = p.charge.date - TrainingCharges(args.charges)[1].date

\* C28: every trip stored under a car's key is a trip of that car.
C28_StoredTripsAreOfTheCar ==
    \A car \in Cars : \A t \in Range(store.storage[car]) : t.car = car

====
